---- MODULE Spec2Model ----
(***************************************************************************)
(* Model of the crypt(3) hash-string codec of sergeymakinen/go-crypt:      *)
(* the lexer and parser of package hash/parse, the struct-tag compiler     *)
(* (getRawTypeInfo, normalize, field, getTypeInfo) and the Marshal and     *)
(* Unmarshal engines of package hash.                                      *)
(*                                                                         *)
(* A Go string is a sequence of one-character strings; byte offsets (Pos)  *)
(* are 0-based as in the source, sequence indexes are 1-based.             *)
(***************************************************************************)
EXTENDS Integers, Sequences, FiniteSets, TLC

\* ------------------------------------------------------------------------
\* Strings
\* ------------------------------------------------------------------------

\* s[from:] of Go, from 0-based
From(s, from) == SubSeq(s, from + 1, Len(s))

\* s[:to] of Go
Upto(s, to) == SubSeq(s, 1, to)

\* s[from:to] of Go
Slice(s, from, to) == SubSeq(s, from + 1, to)

\* strings.HasPrefix
HasPrefix(s, p) == Len(s) >= Len(p) /\ SubSeq(s, 1, Len(p)) = p

\* strings.TrimPrefix
TrimPrefix(s, p) == IF HasPrefix(s, p) THEN From(s, Len(p)) ELSE s

\* strings.IndexAny: 0-based index of the first character of s that is in
\* chars, -1 when there is none
IndexAny(s, chars) ==
    IF \E i \in 1..Len(s) : s[i] \in chars
    THEN (CHOOSE i \in 1..Len(s) :
             s[i] \in chars /\ \A j \in 1..(i - 1) : s[j] \notin chars) - 1
    ELSE -1

Range(s) == {s[i] : i \in 1..Len(s)}

\* ------------------------------------------------------------------------
\* hash/parse: lexer
\* ------------------------------------------------------------------------

\* const delimChars = "$,"
delimChars == {"$", ","}

token(t, pos, value) == [Type |-> t, Pos |-> pos, Value |-> value]

\* l := &lexer{input: input, tokens: make(chan token)}; tokens holds what
\* the lexer has sent so far
lex(input) == [input |-> input, pos |-> 0, start |-> 0, tokens |-> <<>>]

\* Mutant: the start of the pending text stays where it was
emit_keep(l, t) ==
    [l EXCEPT !.tokens = Append(@, token(t, l.start, Slice(l.input, l.start, l.pos)))]

\* func (l *lexer) emit(t tokenType)
emit(l, t) ==
    [l EXCEPT !.tokens = Append(@, token(t, l.start, Slice(l.input, l.start, l.pos))),
              !.start = l.pos]

\* func (l *lexer) errorf(format string, args ...interface{}) stateFn
errorf(l, msg) ==
    [l EXCEPT !.tokens = Append(@, token("tokenError", l.pos, msg))]

\* The "_" half of lexPrefix: it is a second if, not an else branch
lexUnderscore(l) ==
    IF HasPrefix(From(l.input, l.pos), <<"_">>)
    THEN emit([l EXCEPT !.pos = @ + 1], "tokenPrefix")
    ELSE l

\* func lexPrefix(l *lexer) stateFn; the result is the lexer and the next
\* state function ("nil" ends the run)
lexPrefix(l) ==
    IF HasPrefix(From(l.input, l.pos), <<"$">>)
    THEN LET l1 == [l EXCEPT !.pos = @ + 1]
             i  == IndexAny(From(l1.input, l1.pos), delimChars)
         IN  IF i >= 0
             THEN IF i = 0
                  THEN [l |-> errorf(l1, "missing prefix identifier"), next |-> "nil"]
                  ELSE [l |-> lexUnderscore(emit([l1 EXCEPT !.pos = @ + i + 1], "tokenPrefix")),
                        next |-> "lexFragment"]
             ELSE [l |-> errorf([l1 EXCEPT !.pos = Len(l1.input)], "missing prefix end"),
                   next |-> "nil"]
    ELSE [l |-> lexUnderscore(l), next |-> "lexFragment"]

\* Mutant: the end of the input is not told
lexFragment_noEOF(l) ==
    LET i == IndexAny(From(l.input, l.pos), delimChars)
    IN  IF i >= 0
        THEN LET l1 == emit([l EXCEPT !.pos = @ + i], "tokenValue")
                 c  == l1.input[l1.pos + 1]
                 l2 == [l1 EXCEPT !.pos = @ + 1]
             IN  [l |-> IF c = "$" THEN emit(l2, "tokenDollar") ELSE emit(l2, "tokenComma"),
                  next |-> "lexFragment"]
        ELSE LET l1 == [l EXCEPT !.pos = Len(l.input)]
             IN  [l |-> IF l1.pos > l1.start THEN emit(l1, "tokenValue") ELSE l1,
                  next |-> "nil"]

\* func lexFragment(l *lexer) stateFn
lexFragment(l) ==
    LET i == IndexAny(From(l.input, l.pos), delimChars)
    IN  IF i >= 0
        THEN LET l1 == emit([l EXCEPT !.pos = @ + i], "tokenValue")
                 c  == l1.input[l1.pos + 1]
                 l2 == [l1 EXCEPT !.pos = @ + 1]
             IN  [l |-> IF c = "$" THEN emit(l2, "tokenDollar") ELSE emit(l2, "tokenComma"),
                  next |-> "lexFragment"]
        ELSE LET l1 == [l EXCEPT !.pos = Len(l.input)]
                 l2 == IF l1.pos > l1.start THEN emit(l1, "tokenValue") ELSE l1
             IN  [l |-> emit(l2, "tokenEOF"), next |-> "nil"]

\* func (l *lexer) run(): the loop over the state functions; the result is
\* the sequence of tokens sent on the channel before it is closed
RECURSIVE run(_, _)
run(l, state) ==
    IF state = "nil" THEN l.tokens
    ELSE LET r == IF state = "lexPrefix" THEN lexPrefix(l) ELSE lexFragment(l)
         IN  run(r.l, r.next)

Tokens(input) == run(lex(input), "lexPrefix")

\* ------------------------------------------------------------------------
\* hash/parse: nodes and parser
\* ------------------------------------------------------------------------

\* A nil *ValueNode, *GroupNode or *PrefixNode
NilNode == [Type |-> "nil", Value |-> <<>>, pos |-> 0, end |-> 0, Values |-> <<>>]

\* Mutant: a value node without its place in the input
ValueNode_nowhere(value, pos, end) ==
    [Type |-> "value", Value |-> value, pos |-> 0, end |-> Len(value), Values |-> <<>>]

ValueNode(value, pos, end) ==
    [Type |-> "value", Value |-> value, pos |-> pos, end |-> end, Values |-> <<>>]

GroupNode(values) ==
    [Type |-> "group", Value |-> <<>>, pos |-> 0, end |-> 0, Values |-> values]

PrefixNode(text, end) ==
    [Type |-> "prefix", Value |-> text, pos |-> 0, end |-> end, Values |-> <<>>]

\* Node.End(): GroupNode.End is the End of its last value
End(n) == IF n.Type = "group" THEN n.Values[Len(n.Values)].end ELSE n.end

\* Node.String(): GroupNode.String is ""
String(n) == IF n.Type = "group" THEN <<>> ELSE n.Value

NoError ==
    [Kind |-> "nil", Msg |-> "", Offset |-> 0, Value |-> "", Field |-> "",
     Field2 |-> "", Tag |-> <<>>, Tag2 |-> <<>>, Char |-> "", Struct |-> ""]

SyntaxError(offset, msg) ==
    [NoError EXCEPT !.Kind = "SyntaxError", !.Offset = offset, !.Msg = msg]

\* The Loop of Parse over the tokens t[i..]
RECURSIVE parseLoop(_, _, _, _, _)
parseLoop(toks, i, tree, group, value) ==
    LET t == toks[i]
    IN  CASE t.Type = "tokenError" ->
               [tree |-> [Prefix |-> NilNode, Fragments |-> <<>>],
                err |-> SyntaxError(t.Pos, t.Value)]
          [] t.Type = "tokenPrefix" ->
               parseLoop(toks, i + 1,
                         [tree EXCEPT !.Prefix = PrefixNode(t.Value, Len(t.Value))],
                         group, value)
          [] t.Type \in {"tokenDollar", "tokenEOF"} ->
               LET tree1 ==
                     IF value.Type # "nil"
                     THEN IF group.Type # "nil"
                          THEN [tree EXCEPT !.Fragments =
                                   Append(@, GroupNode(Append(group.Values, value)))]
                          ELSE [tree EXCEPT !.Fragments = Append(@, value)]
                     ELSE tree
                   group1 == IF value.Type # "nil" THEN NilNode ELSE group
               IN  IF t.Type = "tokenEOF"
                   THEN [tree |-> tree1, err |-> NoError]
                   ELSE parseLoop(toks, i + 1, tree1, group1, NilNode)
          [] t.Type = "tokenComma" ->
               LET g == IF group.Type = "nil" THEN GroupNode(<<>>) ELSE group
               IN  parseLoop(toks, i + 1, tree,
                             [g EXCEPT !.Values = Append(@, value)], NilNode)
          [] t.Type = "tokenValue" ->
               parseLoop(toks, i + 1, tree, group,
                         ValueNode(t.Value, t.Pos, t.Pos + Len(t.Value)))

\* One turn of the Loop of Parse: what the token t received from the
\* channel does to the locals ps of Parse
parseToken(ps, t) ==
    CASE t.Type = "tokenError" ->
           [ps EXCEPT !.pc = "returned",
                      !.tree = [Prefix |-> NilNode, Fragments |-> <<>>],
                      !.err = SyntaxError(t.Pos, t.Value)]
      [] t.Type = "tokenPrefix" ->
           [ps EXCEPT !.tree.Prefix = PrefixNode(t.Value, Len(t.Value))]
      [] t.Type \in {"tokenDollar", "tokenEOF"} ->
           [ps EXCEPT
               !.pc = IF t.Type = "tokenEOF" THEN "returned" ELSE @,
               !.tree.Fragments =
                   IF ps.value.Type = "nil" THEN @
                   ELSE IF ps.group.Type # "nil"
                   THEN Append(@, GroupNode(Append(ps.group.Values, ps.value)))
                   ELSE Append(@, ps.value),
               !.group = IF ps.value.Type # "nil" THEN NilNode ELSE @,
               !.value = NilNode]
      [] t.Type = "tokenComma" ->
           [ps EXCEPT
               !.group = IF @.Type = "nil" THEN GroupNode(<<ps.value>>)
                         ELSE [@ EXCEPT !.Values = Append(@, ps.value)],
               !.value = NilNode]
      [] t.Type = "tokenValue" ->
           [ps EXCEPT !.value = ValueNode(t.Value, t.Pos, t.Pos + Len(t.Value))]

\* func Parse(hash string) (*Tree, error)
Parse(hash) ==
    parseLoop(Tokens(hash), 1, [Prefix |-> NilNode, Fragments |-> <<>>],
              NilNode, NilNode)

\* ------------------------------------------------------------------------
\* hash: struct types, tags and the compiled typeInfo
\* ------------------------------------------------------------------------

\* One option of a `hash:"..."` tag: "param:x", "omitempty", "group",
\* "length:3", "inline", "base:16", "enc:none"; a tag is the sequence of its
\* comma-separated options
TagPart(k, s, n) == [k |-> k, s |-> s, n |-> n]
Param(x)     == TagPart("param", x, 0)
OmitEmptyTag == TagPart("omitempty", <<>>, 0)
GroupTag     == TagPart("group", <<>>, 0)
LengthTag(n) == TagPart("length", <<>>, n)
InlineTag    == TagPart("inline", <<>>, 0)
BaseTag(n)   == TagPart("base", <<>>, n)
EncTag(e)    == TagPart("enc", <<e>>, 0)

\* A reflect.StructField: Kind is the Go kind of the field's type ("string",
\* "int", "uint", "slice" for []byte, "array" for [Len]byte, "bool");
\* Anonymous marks an embedded struct, whose fields are Elem
StructField(name, kind, len, tag) ==
    [Name |-> name, Kind |-> kind, Len |-> len, Tag |-> tag,
     Anonymous |-> FALSE, Elem |-> <<>>]

Embedded(name, elem) ==
    [Name |-> name, Kind |-> "struct", Len |-> 0, Tag |-> <<>>,
     Anonymous |-> TRUE, Elem |-> elem]

\* const hashPrefix = "HashPrefix"
hashPrefix == "HashPrefix"

\* The switch over one tag option inside getRawTypeInfo
applyTagPart(opts, part) ==
    CASE part.k = "param"     -> [opts EXCEPT !.Param = part.s]
      [] part.k = "omitempty" -> [opts EXCEPT !.OmitEmpty = TRUE]
      [] part.k = "group"     -> [opts EXCEPT !.Group = TRUE]
      [] part.k = "length"    ->
           IF opts.Length = 0 \/ part.n < opts.Length
           THEN [opts EXCEPT !.Length = part.n] ELSE opts
      [] part.k = "inline"    -> [opts EXCEPT !.Inline = TRUE]
      [] part.k = "base"      ->
           IF part.n >= 2 /\ part.n <= 36 THEN [opts EXCEPT !.Base = part.n] ELSE opts
      [] part.k = "enc"       ->
           IF part.s[1] \in {"base64", "none"} THEN [opts EXCEPT !.Encoding = part.s[1]] ELSE opts
      [] OTHER -> opts

RECURSIVE applyTag(_, _, _)
applyTag(opts, tag, i) ==
    IF i > Len(tag) THEN opts ELSE applyTag(applyTagPart(opts, tag[i]), tag, i + 1)

\* The fieldInfo getRawTypeInfo builds for the non-embedded field sf at
\* position i (0-based)
rawFieldInfo(sf, i) ==
    LET opts0 == [Prefix |-> sf.Name = hashPrefix, OmitEmpty |-> FALSE, Group |-> FALSE,
                  Param |-> <<>>,
                  Encoding |-> IF sf.Name = hashPrefix THEN "none" ELSE "hash",
                  Length |-> IF sf.Kind = "array" THEN sf.Len ELSE 0,
                  Inline |-> FALSE, Base |-> 10]
    IN  [Index |-> <<i>>, Name |-> sf.Name, Kind |-> sf.Kind, Len |-> sf.Len,
         Tag |-> sf.Tag, Opts |-> applyTag(opts0, sf.Tag, 1)]

\* fi.Index = append([]int{i}, fi.Index...) for every field of an embedded
\* struct
RECURSIVE prependIndex(_, _)
prependIndex(fields, i) ==
    IF fields = <<>> THEN <<>>
    ELSE <<[Head(fields) EXCEPT !.Index = <<i>> \o @]>> \o prependIndex(Tail(fields), i)

\* func getRawTypeInfo(t reflect.Type) *typeInfo: the Fields of the result
RECURSIVE getRawFields(_, _)
getRawFields(t, i) ==
    IF i >= Len(t) THEN <<>>
    ELSE LET sf == t[i + 1]
         IN  (IF sf.Anonymous
              THEN prependIndex(getRawFields(sf.Elem, 0), i)
              ELSE <<rawFieldInfo(sf, i)>>)
             \o getRawFields(t, i + 1)

TagParamError(struct, fi1, fi2) ==
    [NoError EXCEPT !.Kind = "TagParamError", !.Struct = struct,
                    !.Field = fi1.Name, !.Tag = fi1.Tag,
                    !.Field2 = fi2.Name, !.Tag2 = fi2.Tag]

InvalidTagError(struct, f) ==
    [NoError EXCEPT !.Kind = "errorString", !.Msg = "invalid tag in field",
                    !.Struct = struct, !.Field = f.Name, !.Tag = f.Tag]

\* The less function of the sort.Slice call in typeInfo.field
RECURSIVE lessIndex(_, _, _)
lessIndex(a, b, k) ==
    IF k > Len(a) THEN FALSE
    ELSE IF k > Len(b) THEN FALSE
    ELSE IF a[k] # b[k] THEN a[k] < b[k]
    ELSE lessIndex(a, b, k + 1)

fieldLess(f, g) ==
    IF Len(f.Index) # Len(g.Index) THEN Len(f.Index) < Len(g.Index)
    ELSE lessIndex(f.Index, g.Index, 1)

\* The loop of typeInfo.field over ti.Fields: fields collects the fields
\* whose param is the one asked for
RECURSIVE fieldLoop(_, _, _, _, _)
fieldLoop(struct, all, param, i, fields) ==
    IF i > Len(all)
    THEN [fi |-> CHOOSE f \in Range(fields) :
                     \A g \in Range(fields) : ~fieldLess(g, f),
          err |-> NoError]
    ELSE LET fi1 == all[i]
         IN  IF fi1.Opts.Param # param
             THEN fieldLoop(struct, all, param, i + 1, fields)
             ELSE IF \E j \in 1..Len(fields) : Len(fi1.Index) = Len(fields[j].Index)
                  THEN LET j == CHOOSE j \in 1..Len(fields) :
                                   /\ Len(fi1.Index) = Len(fields[j].Index)
                                   /\ \A h \in 1..(j - 1) :
                                         Len(fi1.Index) # Len(fields[h].Index)
                       IN  [fi |-> fi1, err |-> TagParamError(struct, fi1, fields[j])]
                  ELSE fieldLoop(struct, all, param, i + 1, Append(fields, fi1))

\* func (ti *typeInfo) field(param string) (*fieldInfo, error)
\* Mutant: the shallowest field of the param, with no look at the depths
field_shallowest(struct, all, param) ==
    LET fields == SelectSeq(all, LAMBDA f : f.Opts.Param = param)
    IN  [fi |-> CHOOSE f \in Range(fields) : \A g \in Range(fields) : ~fieldLess(g, f),
         err |-> NoError]

field(struct, all, param) == fieldLoop(struct, all, param, 1, <<>>)

\* Mutant: without the check of group
isValid_nogroup(f) ==
    /\ (f.Opts.OmitEmpty => ~f.Opts.Inline)
    /\ (f.Opts.Param # <<>> => ~f.Opts.Prefix)
    /\ (f.Opts.Inline => ~f.Opts.Prefix /\ f.Opts.Length > 0)

\* The isValid computation of normalize for one field
isValid(f) ==
    /\ (f.Opts.OmitEmpty => ~f.Opts.Inline)
    /\ (f.Opts.Group => f.Opts.Param # <<>>)
    /\ (f.Opts.Param # <<>> => ~f.Opts.Prefix)
    /\ (f.Opts.Inline => ~f.Opts.Prefix /\ f.Opts.Length > 0)

NilField ==
    [Index |-> <<>>, Name |-> "", Kind |-> "nil", Len |-> 0, Tag |-> <<>>,
     Opts |-> [Prefix |-> FALSE, OmitEmpty |-> FALSE, Group |-> FALSE, Param |-> <<>>,
               Encoding |-> "none", Length |-> 0, Inline |-> FALSE, Base |-> 10]]

\* The loop of normalize over the raw fields all[i..]; ti carries HashPrefix,
\* NumReqValues and the Struct name, fields and params are the locals
RECURSIVE normalizeLoop(_, _, _, _, _)
normalizeLoop(ti, all, i, fields, params) ==
    IF i > Len(all)
    THEN [ti |-> [ti EXCEPT !.Fields = fields], err |-> NoError]
    ELSE LET f == all[i]
         IN  IF ~isValid(f)
             THEN [ti |-> ti, err |-> InvalidTagError(ti.Struct, f)]
             ELSE IF f.Opts.Prefix
             THEN normalizeLoop([ti EXCEPT !.HashPrefix = f], all, i + 1, fields, params)
             ELSE LET ti1 == IF ~f.Opts.Group /\ ~f.Opts.OmitEmpty /\ ~f.Opts.Inline
                             THEN [ti EXCEPT !.NumReqValues = @ + 1] ELSE ti
                  IN  IF f.Opts.Param = <<>>
                      THEN normalizeLoop(ti1, all, i + 1, Append(fields, f), params)
                      ELSE IF f.Opts.Param \in params
                      THEN normalizeLoop(ti1, all, i + 1, fields, params)
                      ELSE LET r == field(ti.Struct, all, f.Opts.Param)
                           IN  IF r.err.Kind # "nil"
                               THEN [ti |-> ti1, err |-> r.err]
                               ELSE normalizeLoop(ti1, all, i + 1, Append(fields, r.fi),
                                                  params \cup {f.Opts.Param})

\* func (ti *typeInfo) normalize() error, applied to getRawTypeInfo(typ)
\* with info.Struct = t
normalize(typ, struct) ==
    LET all == getRawFields(typ, 0)
    IN  normalizeLoop([Struct |-> struct, HashPrefix |-> NilField, Fields |-> all,
                       NumReqValues |-> 0],
                      all, 1, <<>>, {})

\* reflect.Type.String() of the type handed to Marshal or Unmarshal: the
\* struct type T or its pointer type
TypeString(ptr) == IF ptr THEN "*T" ELSE "T"

\* func getTypeInfo(t reflect.Type) (*typeInfo, error), for t the struct
\* type typ (ptr = FALSE) or a pointer to it (ptr = TRUE).  cache is the
\* typeCache entries of typ: a function from the keys stored (FALSE for the
\* struct type, TRUE for the pointer type) to the Struct field of the cached
\* *typeInfo.  The lookup key is indirectType(t), the store key is t, and
\* ti := &(*f.(*typeInfo)) is the cached pointer itself, so ti.Struct = t
\* writes the cached object.
getTypeInfo(typ, ptr, cache) ==
    IF FALSE \in DOMAIN cache
    THEN [ti |-> normalize(typ, TypeString(ptr)).ti, err |-> NoError, compiled |-> FALSE,
          cache |-> [cache EXCEPT ![FALSE] = ptr]]
    ELSE LET store(r) ==
                 IF r.err.Kind # "nil"
                 THEN [ti |-> r.ti, err |-> r.err, compiled |-> TRUE, cache |-> cache]
                 ELSE [ti |-> r.ti, err |-> NoError, compiled |-> TRUE,
                       cache |-> IF ptr \in DOMAIN cache
                                 THEN [cache EXCEPT ![ptr] = ptr]
                                 ELSE [k \in DOMAIN cache \cup {ptr} |->
                                          IF k = ptr THEN ptr ELSE cache[k]]]
         IN  store(normalize(typ, TypeString(ptr)))

\* ------------------------------------------------------------------------
\* internal/hashutil: alphabets; strconv: integers
\* ------------------------------------------------------------------------

Digits == <<"0", "1", "2", "3", "4", "5", "6", "7", "8", "9">>

LowerCase ==
    <<"a", "b", "c", "d", "e", "f", "g", "h", "i", "j", "k", "l", "m",
      "n", "o", "p", "q", "r", "s", "t", "u", "v", "w", "x", "y", "z">>

UpperCase ==
    <<"A", "B", "C", "D", "E", "F", "G", "H", "I", "J", "K", "L", "M",
      "N", "O", "P", "Q", "R", "S", "T", "U", "V", "W", "X", "Y", "Z">>

\* const encoderHash
encoderHash == <<".", "/">> \o Digits \o UpperCase \o LowerCase

\* const encoderBase64
encoderBase64 == UpperCase \o LowerCase \o Digits \o <<"+", "/">>

\* The characters an Encoding accepts (decodeMap[c] # 0xFF)
Alphabet(enc) ==
    IF enc = "hash" THEN Range(encoderHash) ELSE Range(encoderBase64)

\* Mutant: every character passes
IndexAnyInvalid_none(enc, b) == -1

\* func (enc Encoding) IndexAnyInvalid(b []byte) int
IndexAnyInvalid(enc, b) ==
    IF \E i \in 1..Len(b) : b[i] \notin Alphabet(enc)
    THEN (CHOOSE i \in 1..Len(b) :
             b[i] \notin Alphabet(enc) /\ \A j \in 1..(i - 1) : b[j] \in Alphabet(enc)) - 1
    ELSE -1

PosIn(seq, c) == CHOOSE i \in 1..Len(seq) : seq[i] = c

\* The value of a digit character in strconv.ParseUint, -1 for a character
\* that is no digit in any base
DigitVal(c) ==
    CASE c \in Range(Digits)    -> PosIn(Digits, c) - 1
      [] c \in Range(LowerCase) -> PosIn(LowerCase, c) + 9
      [] c \in Range(UpperCase) -> PosIn(UpperCase, c) + 9
      [] OTHER -> -1

\* The digit loop of strconv.ParseUint(s, base, 64) for 2 <= base <= 36.
\* The texts of this model are too short to leave the 64-bit range, so the
\* range error is not reachable.
RECURSIVE parseDigits(_, _, _, _)
parseDigits(s, base, i, n) ==
    IF i > Len(s) THEN [ok |-> TRUE, val |-> n]
    ELSE LET d == DigitVal(s[i])
         IN  IF d < 0 \/ d >= base THEN [ok |-> FALSE, val |-> 0]
             ELSE parseDigits(s, base, i + 1, n * base + d)

\* strconv.ParseUint(s, base, 64)
ParseUint(s, base) ==
    IF s = <<>> THEN [ok |-> FALSE, val |-> 0] ELSE parseDigits(s, base, 1, 0)

\* strconv.ParseInt(s, base, 64)
ParseInt(s, base) ==
    IF s = <<>> THEN [ok |-> FALSE, val |-> 0]
    ELSE LET neg  == s[1] = "-"
             rest == IF s[1] \in {"+", "-"} THEN Tail(s) ELSE s
             signed(un) ==
                 IF ~un.ok THEN un
                 ELSE [ok |-> TRUE, val |-> IF neg THEN 0 - un.val ELSE un.val]
         IN  signed(ParseUint(rest, base))

DigitChar(d) == IF d < 10 THEN Digits[d + 1] ELSE LowerCase[d - 9]

\* strconv.FormatUint(u, base)
RECURSIVE FormatUint(_, _)
FormatUint(u, base) ==
    IF u < base THEN <<DigitChar(u)>>
    ELSE Append(FormatUint(u \div base, base), DigitChar(u % base))

\* Mutant: the digits of base 10 whatever the base
FormatInt_decimal(i, base) ==
    IF i < 0 THEN <<"-">> \o FormatUint(0 - i, 10) ELSE FormatUint(i, 10)

\* strconv.FormatInt(i, base)
FormatInt(i, base) ==
    IF i < 0 THEN <<"-">> \o FormatUint(0 - i, base) ELSE FormatUint(i, base)

\* ------------------------------------------------------------------------
\* hash: Unmarshal
\* ------------------------------------------------------------------------

\* The byte 0 of a zeroed byte array
NUL == "NUL"

RECURSIVE Zeros(_)
Zeros(n) == IF n = 0 THEN <<>> ELSE Append(Zeros(n - 1), NUL)

\* The zero value of a field of the given kind: a string, []byte or [n]byte
\* value is its sequence of bytes, an integer is itself
ZeroValue(kind, len) ==
    CASE kind \in {"int", "uint"} -> 0
      [] kind = "bool"            -> FALSE
      [] kind = "array"           -> Zeros(len)
      [] OTHER                    -> <<>>

\* reflect.New(typ).Elem(): the record with every field zero; a record is a
\* function from the Index of each leaf field to the field's value
ZeroRecord(typ) ==
    LET all == getRawFields(typ, 0)
    IN  [ix \in {all[i].Index : i \in 1..Len(all)} |->
            LET f == CHOOSE f \in Range(all) : f.Index = ix
            IN  ZeroValue(f.Kind, f.Len)]

\* func (f fieldInfo) String() string
FieldString(fi) ==
    IF fi.Opts.Group THEN "grouped param"
    ELSE IF fi.Opts.Param # <<>> THEN "param" ELSE "value"

\* NodeType.String() of node.Type()
NodeTypeString(n) == n.Type

\* func newUnmarshalError(node parse.Node, ti *typeInfo, fi *fieldInfo, msg string) error
newUnmarshalError(node, ti, fi, msg) ==
    [NoError EXCEPT !.Kind = "UnmarshalTypeError", !.Value = NodeTypeString(node),
                    !.Offset = End(node), !.Struct = ti.Struct, !.Field = fi.Name,
                    !.Msg = msg]

\* Mutant: the offset of the start of the input
eofError_start(hash, ti, fi, msg) ==
    [NoError EXCEPT !.Kind = "UnmarshalTypeError", !.Value = "EOF",
                    !.Offset = 0, !.Struct = ti.Struct, !.Field = fi.Name,
                    !.Msg = msg]

\* The &UnmarshalTypeError{Value: "EOF", Offset: len(hash), ...} literals
eofError(hash, ti, fi, msg) ==
    [NoError EXCEPT !.Kind = "UnmarshalTypeError", !.Value = "EOF",
                    !.Offset = Len(hash), !.Struct = ti.Struct, !.Field = fi.Name,
                    !.Msg = msg]

\* The "excessive fragment" literals after the field loop: no Struct and
\* no Field
excessError(node) ==
    [NoError EXCEPT !.Kind = "UnmarshalTypeError", !.Value = NodeTypeString(node),
                    !.Offset = End(node), !.Msg = "excessive fragment"]

\* The tail of unmarshal from the TextUnmarshaler checks on: storing the
\* text s into a field of fi's kind that holds old
decode(node, ti, fi, s, old) ==
    LET set(r, msg) ==
            IF r.ok THEN [err |-> NoError, val |-> r.val]
            ELSE [err |-> newUnmarshalError(node, ti, fi, msg), val |-> old]
    IN  CASE fi.Opts.Prefix /\ fi.Kind # "string" ->
               [err |-> newUnmarshalError(node, ti, fi, "unsupported type"), val |-> old]
          [] fi.Kind = "slice" -> [err |-> NoError, val |-> s]
          [] fi.Kind = "array" ->
               [err |-> NoError,
                val |-> [i \in 1..Len(old) |-> IF i <= Len(s) THEN s[i] ELSE old[i]]]
          [] fi.Kind = "int" ->
               set(ParseInt(s, fi.Opts.Base), "strconv.ParseInt: invalid syntax")
          [] fi.Kind = "uint" ->
               set(ParseUint(s, fi.Opts.Base), "strconv.ParseUint: invalid syntax")
          [] fi.Kind = "string" -> [err |-> NoError, val |-> s]
          [] OTHER -> [err |-> newUnmarshalError(node, ti, fi, "unsupported type"), val |-> old]

\* func unmarshal(node parse.Node, ti *typeInfo, fi *fieldInfo, v reflect.Value) error
\* The result is the error, the new value of the field (old when nothing
\* is stored), the text taken, and the Value the node is left with: the
\* deferred function of an inline field cuts the text taken off the node.
unmarshal(node, ti, fi, old) ==
    LET s0 == IF fi.Opts.Param # <<>>
              THEN TrimPrefix(String(node), fi.Opts.Param \o <<"=">>)
              ELSE String(node)
        inl == fi.Opts.Length > 0 /\ fi.Opts.Inline
        short == inl /\ Len(s0) < fi.Opts.Length
        store(s, rest) ==
            LET checked(bad, d) ==
                    IF bad >= 0
                    THEN [err |-> [newUnmarshalError(node, ti, fi, "invalid character")
                                      EXCEPT !.Char = s[bad + 1]],
                          val |-> old, text |-> s, rest |-> rest]
                    ELSE [err |-> d.err, val |-> d.val, text |-> s, rest |-> rest]
            IN  checked(IF fi.Opts.Encoding # "none"
                        THEN IndexAnyInvalid(fi.Opts.Encoding, s) ELSE -1,
                        decode(node, ti, fi, s, old))
    IN  IF short \/ (fi.Opts.Length > 0 /\ ~fi.Opts.Inline /\ Len(s0) # fi.Opts.Length)
        THEN [err |-> newUnmarshalError(node, ti, fi, "length mismatch"),
              val |-> old, text |-> s0, rest |-> node.Value]
        ELSE IF inl
        THEN store(Upto(node.Value, fi.Opts.Length), From(node.Value, fi.Opts.Length))
        ELSE store(s0, node.Value)

\* fi.String() + " not found"
notFound(fi) ==
    IF fi.Opts.Group THEN "grouped param not found"
    ELSE IF fi.Opts.Param # <<>> THEN "param not found" ELSE "value not found"

\* The locals of Unmarshal at the head of the field loop.  group is "nil",
\* "node" (the *GroupNode at fragIdx) or "single" (a new GroupNode around the
\* *ValueNode at fragIdx); frags are the tree's fragments, which inline
\* fields cut in place; log lists what each field did.
startLoop(tree, ti, v) ==
    [fragIdx |-> 0, numGroupValues |-> 0, group |-> "nil",
     numValues |-> Len(tree.Fragments), numReqValues |-> ti.NumReqValues,
     frags |-> tree.Fragments, v |-> v, err |-> NoError, log |-> <<>>]

\* The GroupNode the local group points to
openGroup(st) ==
    IF st.group = "node" THEN st.frags[st.fragIdx + 1]
    ELSE GroupNode(<<st.frags[st.fragIdx + 1]>>)

logEntry(st, fi, what, sub, text) ==
    [Field |-> fi.Name, Index |-> fi.Index, What |-> what, Frag |-> st.fragIdx,
     Sub |-> sub, Text |-> text, Left |-> Len(st.frags) - st.fragIdx,
     numValues |-> st.numValues, numReqValues |-> st.numReqValues,
     numGroupValues |-> st.numGroupValues]

\* continue, or fall out of the switch, without an error
note(st, fi, what) == [st EXCEPT !.log = Append(@, logEntry(st, fi, what, 0, <<>>))]

\* return err
fail(st, fi, err) ==
    [st EXCEPT !.err = err, !.log = Append(@, logEntry(st, fi, "error", 0, <<>>))]

\* case fi.Opts.Group && (frag is a group || (frag is a value && !OmitEmpty))
groupedCase(ti, fi, st0, frag) ==
    LET key == fi.Opts.Param \o <<"=">>
        search(st, values) ==
            LET bind(j, r) ==
                    LET frags1 ==
                            IF st.group = "node"
                            THEN [st.frags EXCEPT ![st.fragIdx + 1].Values[j].Value = r.rest]
                            ELSE [st.frags EXCEPT ![st.fragIdx + 1].Value = r.rest]
                    IN  IF r.err.Kind # "nil"
                        THEN fail([st EXCEPT !.frags = frags1], fi, r.err)
                        ELSE [st EXCEPT !.frags = frags1,
                                        !.v = [@ EXCEPT ![fi.Index] = r.val],
                                        !.numGroupValues = @ - 1,
                                        !.log = Append(@, logEntry(st, fi, "bound", j, r.text))]
                match(j) == bind(j, unmarshal(values[j], ti, fi, st.v[fi.Index]))
            IN  IF \E j \in 1..Len(values) : HasPrefix(values[j].Value, key)
                THEN match(CHOOSE j \in 1..Len(values) :
                              /\ HasPrefix(values[j].Value, key)
                              /\ \A h \in 1..(j - 1) : ~HasPrefix(values[h].Value, key))
                ELSE IF ~fi.Opts.OmitEmpty
                THEN fail(st, fi, newUnmarshalError(frag, ti, fi, notFound(fi)))
                ELSE note(st, fi, "no match")
        open(st) == search(st, openGroup(st).Values)
    IN  open(IF frag.Type = "group"
             THEN IF st0.group = "nil"
                  THEN [st0 EXCEPT !.group = "node", !.numGroupValues = Len(frag.Values)]
                  ELSE st0
             ELSE [st0 EXCEPT !.group = "single", !.numGroupValues = 1])

\* case !fi.Opts.Group && frag is a value
valueCase(ti, fi, st, frag) ==
    IF (fi.Opts.Param # <<>> /\ HasPrefix(String(frag), fi.Opts.Param)) \/ fi.Opts.Param = <<>>
    THEN LET bind(r) ==
                 LET frags1 == [st.frags EXCEPT ![st.fragIdx + 1].Value = r.rest]
                 IN  IF r.err.Kind # "nil"
                     THEN fail([st EXCEPT !.frags = frags1], fi, r.err)
                     ELSE [st EXCEPT !.frags = frags1,
                                     !.v = [@ EXCEPT ![fi.Index] = r.val],
                                     !.numValues = @ - 1,
                                     !.numReqValues = IF ~fi.Opts.OmitEmpty THEN @ - 1 ELSE @,
                                     !.fragIdx = IF ~fi.Opts.Inline THEN @ + 1 ELSE @,
                                     !.log = Append(@, logEntry(st, fi, "bound", 0, r.text))]
         IN  bind(unmarshal(frag, ti, fi, st.v[fi.Index]))
    ELSE IF fi.Opts.OmitEmpty THEN note(st, fi, "no match")
    ELSE fail(st, fi, newUnmarshalError(frag, ti, fi, notFound(fi)))

\* if !fi.Opts.Group && group != nil: the field ends the open group
groupEnds(fi, st) == ~fi.Opts.Group /\ st.group # "nil"

\* Mutant: one value of the open group may stay untaken
groupExcess_one(st) == st.numGroupValues > 1

\* if numGroupValues > 0: the open group has values no field has taken
groupExcess(st) == st.numGroupValues > 0

\* if fragIdx >= len(tree.Fragments)
noMoreFragments(st) == st.fragIdx >= Len(st.frags)

\* Mutant: the optional field is skipped only when fragments are short
skipOptional_lt(fi, st) ==
    fi.Opts.OmitEmpty /\ st.group = "nil" /\ st.numValues - st.numReqValues < 0

\* if fi.Opts.OmitEmpty && group == nil && numValues-numReqValues <= 0
skipOptional(fi, st) ==
    fi.Opts.OmitEmpty /\ st.group = "nil" /\ st.numValues - st.numReqValues <= 0

\* The body of the loop `for _, fi := range ti.Fields` of Unmarshal
fieldStep(hash, ti, fi, st0) ==
    IF groupEnds(fi, st0) /\ groupExcess(st0)
    THEN fail(st0, fi, newUnmarshalError(openGroup(st0), ti, fi, "excessive fragment"))
    ELSE LET switch(st, frag) ==
                 IF fi.Opts.Group /\ (frag.Type = "group"
                                      \/ (frag.Type = "value" /\ ~fi.Opts.OmitEmpty))
                 THEN groupedCase(ti, fi, st, frag)
                 ELSE IF ~fi.Opts.Group /\ frag.Type = "value"
                 THEN valueCase(ti, fi, st, frag)
                 ELSE IF fi.Opts.OmitEmpty THEN note(st, fi, "no match")
                 ELSE fail(st, fi, newUnmarshalError(frag, ti, fi, notFound(fi)))
             body(st) ==
                 IF noMoreFragments(st)
                 THEN IF fi.Opts.OmitEmpty THEN note(st, fi, "no fragment")
                      ELSE fail(st, fi, eofError(hash, ti, fi, "unexpected EOF"))
                 ELSE IF skipOptional(fi, st)
                 THEN note([st EXCEPT !.numValues = @ - 1], fi, "skipped")
                 ELSE switch(st, st.frags[st.fragIdx + 1])
         IN  body(IF groupEnds(fi, st0)
                  THEN [st0 EXCEPT !.fragIdx = @ + 1, !.group = "nil"] ELSE st0)

\* Mutant: the loop goes on after an error
RECURSIVE fieldsLoop_on(_, _, _, _)
fieldsLoop_on(hash, ti, i, st) ==
    IF i > Len(ti.Fields) THEN st
    ELSE fieldsLoop_on(hash, ti, i + 1, fieldStep(hash, ti, ti.Fields[i], st))

RECURSIVE fieldsLoop(_, _, _, _)
fieldsLoop(hash, ti, i, st) ==
    IF i > Len(ti.Fields) \/ st.err.Kind # "nil" THEN st
    ELSE fieldsLoop(hash, ti, i + 1, fieldStep(hash, ti, ti.Fields[i], st))

\* The two checks of Unmarshal after the field loop
afterFields(st) ==
    IF st.group # "nil" /\ groupExcess(st)
    THEN [st EXCEPT !.err = excessError(openGroup(st))]
    ELSE LET fragIdx == IF st.group # "nil" THEN st.fragIdx + 1 ELSE st.fragIdx
         IN  IF fragIdx < Len(st.frags)
             THEN [st EXCEPT !.fragIdx = fragIdx, !.err = excessError(st.frags[fragIdx + 1])]
             ELSE [st EXCEPT !.fragIdx = fragIdx]

\* Mutant: the prefix is not looked at
prefixStep_skip(hash, tree, ti, st) == st

\* Mutant: a prefix of the tree that no field takes is an excessive fragment
prefixStep_excess(hash, tree, ti, st) ==
    IF ti.HashPrefix.Kind = "nil" /\ tree.Prefix.Type # "nil"
    THEN [st EXCEPT !.err = excessError(tree.Prefix)]
    ELSE st

\* The prefix block of Unmarshal
prefixStep(hash, tree, ti, st) ==
    IF ti.HashPrefix.Kind = "nil" THEN st
    ELSE IF tree.Prefix.Type # "nil"
    THEN LET bind(r) ==
                 IF r.err.Kind # "nil" THEN fail(st, ti.HashPrefix, r.err)
                 ELSE [st EXCEPT !.v = [@ EXCEPT ![ti.HashPrefix.Index] = r.val],
                                 !.log = Append(@, logEntry(st, ti.HashPrefix, "prefix", 0,
                                                            r.text))]
         IN  bind(unmarshal(tree.Prefix, ti, ti.HashPrefix, st.v[ti.HashPrefix.Index]))
    ELSE IF ~ti.HashPrefix.Opts.OmitEmpty
    THEN fail(st, ti.HashPrefix, eofError(hash, ti, ti.HashPrefix, "prefix not found"))
    ELSE st

\* func Unmarshal(hash string, v interface{}) error, for v a non-nil pointer
\* to a record of the struct type typ holding target.  The result is the
\* record as Unmarshal leaves it, the error, what each field did, the
\* typeCache and whether getTypeInfo ran the compilation.
Unmarshal(hash, typ, target, cache) ==
    LET return(st, g) ==
            [v |-> st.v, err |-> st.err, log |-> st.log, cache |-> g.cache,
             compiled |-> g.compiled]
        after(st) == IF st.err.Kind # "nil" THEN st ELSE afterFields(st)
        fill(tree, g) ==
            IF g.err.Kind # "nil"
            THEN [v |-> target, err |-> g.err, log |-> <<>>, cache |-> g.cache,
                  compiled |-> g.compiled]
            ELSE return(after(fieldsLoop(hash, g.ti, 1,
                                         prefixStep(hash, tree, g.ti,
                                                    startLoop(tree, g.ti, target)))),
                        g)
        parsed(p) ==
            IF p.err.Kind # "nil"
            THEN [v |-> target, err |-> p.err, log |-> <<>>, cache |-> cache,
                  compiled |-> FALSE]
            ELSE fill(p.tree, getTypeInfo(typ, TRUE, cache))
    IN  parsed(Parse(hash))

\* ------------------------------------------------------------------------
\* hash: Marshal
\* ------------------------------------------------------------------------

UnsupportedTypeError(struct, fi) ==
    [NoError EXCEPT !.Kind = "UnsupportedTypeError", !.Struct = struct, !.Field = fi.Name]

UnsupportedValueError(struct, fi, str) ==
    [NoError EXCEPT !.Kind = "UnsupportedValueError", !.Struct = struct,
                    !.Field = fi.Name, !.Msg = str]

\* func marshal(t reflect.Type, fi *fieldInfo, v reflect.Value) (string, error)
marshal(struct, fi, v) ==
    CASE fi.Opts.Prefix /\ fi.Kind # "string" ->
           [s |-> <<>>, err |-> UnsupportedTypeError(struct, fi)]
      [] fi.Kind \in {"array", "slice", "string"} -> [s |-> v, err |-> NoError]
      [] fi.Kind = "int"  -> [s |-> FormatInt(v, fi.Opts.Base), err |-> NoError]
      [] fi.Kind = "uint" -> [s |-> FormatUint(v, fi.Opts.Base), err |-> NoError]
      [] OTHER -> [s |-> <<>>, err |-> UnsupportedTypeError(struct, fi)]

\* func marshalValue(t reflect.Type, fi *fieldInfo, v reflect.Value) (string, error)
marshalValue(struct, fi, v) ==
    LET invalid(m, bad) ==
            IF bad >= 0
            THEN [s |-> <<>>,
                  err |-> [UnsupportedValueError(struct, fi, "invalid character")
                              EXCEPT !.Char = m.s[bad + 1]]]
            ELSE m
        check(m) ==
            IF m.err.Kind # "nil" THEN m
            ELSE IF fi.Opts.Length > 0 /\ Len(m.s) # fi.Opts.Length
            THEN [s |-> <<>>, err |-> UnsupportedValueError(struct, fi, "length mismatch")]
            ELSE invalid(m, IF fi.Opts.Encoding # "none"
                            THEN IndexAnyInvalid(fi.Opts.Encoding, m.s) ELSE -1)
    IN  check(marshal(struct, fi, v))

\* Mutant: no value is empty
isEmpty_never(kind, v) == FALSE

\* func isEmpty(v reflect.Value) bool
isEmpty(kind, v) ==
    CASE kind \in {"array", "slice", "string"} -> Len(v) = 0
      [] kind = "bool"                         -> ~v
      [] kind \in {"int", "uint"}              -> v = 0
      [] OTHER                                 -> FALSE

\* Mutant: "$" between the fields of a group too
separator_dollar(prevFi, fi) ==
    IF prevFi.Kind # "nil" /\ ~prevFi.Opts.Inline THEN <<"$">> ELSE <<>>

\* Mutant: a separator after an inline field too
separator_always(prevFi, fi) ==
    IF prevFi.Kind # "nil"
    THEN IF prevFi.Opts.Group /\ fi.Opts.Group THEN <<",">> ELSE <<"$">>
    ELSE <<>>

\* The separator Marshal writes before a field that comes after prevFi
separator(prevFi, fi) ==
    IF prevFi.Kind # "nil" /\ ~prevFi.Opts.Inline
    THEN IF prevFi.Opts.Group /\ fi.Opts.Group THEN <<",">> ELSE <<"$">>
    ELSE <<>>

\* The loop `for _, fi := range info.Fields` of Marshal
RECURSIVE marshalLoop(_, _, _, _, _)
marshalLoop(ti, v, i, buf, prevFi) ==
    IF i > Len(ti.Fields) THEN [s |-> buf, err |-> NoError]
    ELSE LET fi == ti.Fields[i]
             fv == v[fi.Index]
         IN  IF fi.Opts.OmitEmpty /\ isEmpty(fi.Kind, fv)
             THEN marshalLoop(ti, v, i + 1, buf, prevFi)
             ELSE LET write(m) ==
                          IF m.err.Kind # "nil" THEN [s |-> <<>>, err |-> m.err]
                          ELSE marshalLoop(ti, v, i + 1,
                                           buf \o separator(prevFi, fi)
                                               \o (IF fi.Opts.Param # <<>>
                                                   THEN fi.Opts.Param \o <<"=">> ELSE <<>>)
                                               \o m.s,
                                           fi)
                  IN  write(marshalValue(ti.Struct, fi, fv))

\* func Marshal(v interface{}) (string, error), for v the record v of the
\* struct type typ, handed over by value (ptr = FALSE) or by pointer
Marshal(v, typ, ptr, cache) ==
    LET return(r, g) ==
            [s |-> r.s, err |-> r.err, cache |-> g.cache, compiled |-> g.compiled]
        fields(pre, ti) ==
            IF pre.err.Kind # "nil" THEN pre ELSE marshalLoop(ti, v, 1, pre.s, NilField)
        prefix(ti) ==
            fields(IF ti.HashPrefix.Kind # "nil"
                   THEN marshalValue(ti.Struct, ti.HashPrefix, v[ti.HashPrefix.Index])
                   ELSE [s |-> <<>>, err |-> NoError],
                   ti)
        write(g) ==
            IF g.err.Kind # "nil"
            THEN [s |-> <<>>, err |-> g.err, cache |-> g.cache, compiled |-> g.compiled]
            ELSE return(prefix(g.ti), g)
    IN  write(getTypeInfo(typ, ptr, cache))

\* ------------------------------------------------------------------------
\* crypt: RegisterHash and Check
\* ------------------------------------------------------------------------

\* The errors of package crypt, by their text; "nil" for no error
ErrHash == "unknown hash"
ErrPasswordMismatch == "hash and password mismatch"

\* The check functions a package may register: "reject" is the function of
\* TestCheckNotMatchingPassword, "accept" compares the password with the
\* end of the hash
CheckFuncs == {"reject", "accept"}

\* check(hash, password), for the registered function check
Apply(check, hash, password) ==
    IF check = "accept" /\ hash # <<>> /\ password = <<hash[Len(hash)]>>
    THEN "nil" ELSE ErrPasswordMismatch

\* Mutant: the first registration of a prefix stays
RegisterHash_first(cache, prefix, check) ==
    IF prefix \in DOMAIN cache THEN cache
    ELSE [k \in DOMAIN cache \cup {prefix} |-> IF k = prefix THEN check ELSE cache[k]]

\* func RegisterHash(prefix string, check func(hash, password string) error):
\* hashCache.Store(prefix, check), for cache the entries of hashCache
RegisterHash(cache, prefix, check) ==
    [k \in DOMAIN cache \cup {prefix} |-> IF k = prefix THEN check ELSE cache[k]]

\* func Check(hash, password string) error
Check(cache, hash, password) ==
    LET load(prefix) ==
            IF prefix \in DOMAIN cache THEN Apply(cache[prefix], hash, password)
            ELSE ErrHash
        underscore(prefix) ==
            load(IF HasPrefix(hash, <<"_">>) THEN <<"_">> ELSE prefix)
        dollar(i) ==
            IF i = 0 \/ i < 0 THEN ErrHash
            ELSE underscore(SubSeq(hash, 1, i + 2))
    IN  IF HasPrefix(hash, <<"$">>)
        THEN dollar(IndexAny(From(hash, 1), {"$", ","}))
        ELSE underscore(<<>>)

\* ------------------------------------------------------------------------
\* The record types, records and hash strings of the model
\* ------------------------------------------------------------------------

\* Bounds
MaxFields == 3      \* positional fields of a generated record type
MaxValues == 3      \* values (fragments and group members) of a generated hash
MaxHashLen == 17    \* characters of a hash the caller goes on with

Letters == <<"a", "b", "c", "d", "e", "f", "g", "h">>

\* All sequences of at most n elements of S
SeqsUpTo(S, n) == UNION {[1..k -> S] : k \in 0..n}

RECURSIVE Join(_, _)
Join(parts, sep) ==
    IF parts = <<>> THEN <<>>
    ELSE IF Len(parts) = 1 THEN parts[1]
    ELSE parts[1] \o sep \o Join(Tail(parts), sep)

\* The field names of a generated type: F1, F2, ...
FieldNames == <<"F1", "F2", "F3", "F4", "F5", "F6">>

\* A struct type from a prefix flag and a sequence of (kind, len, tag)
\* field shapes
MakeType(withPrefix, shapes) ==
    (IF withPrefix THEN <<StructField(hashPrefix, "string", 0, <<>>)>> ELSE <<>>)
    \o [i \in 1..Len(shapes) |->
          StructField(FieldNames[i], shapes[i].kind, shapes[i].len, shapes[i].tag)]

Shape(kind, len, tag) == [kind |-> kind, len |-> len, tag |-> tag]

\* Required and optional positional text fields
ReqShape == Shape("string", 0, <<>>)
OptShape == Shape("string", 0, <<OmitEmptyTag>>)

\* Every interleaving of required and optional positional fields, with and
\* without a prefix field
OptTypes ==
    {MakeType(p, sh) : p \in BOOLEAN,
                       sh \in SeqsUpTo({ReqShape, OptShape}, MaxFields) \ {<<>>}}

\* A hash with k one-letter fragments a$b$c..., after the given prefix
FragHash(prefix, k) == prefix \o Join([i \in 1..k |-> <<Letters[i]>>], <<"$">>)

TestPrefix == <<"$", "t", "$">>

OptHashes ==
    {FragHash(p, k) : p \in {<<>>, TestPrefix}, k \in 0..(MaxFields + 1)}

\* The records of a type whose fields hold one of the given texts
TextRecords(t, texts) ==
    LET all == getRawFields(t, 0)
        ixs == {all[i].Index : i \in 1..Len(all)}
    IN  {r \in [ixs -> texts] :
            \A i \in 1..Len(all) :
               all[i].Name = hashPrefix => r[all[i].Index] \in {<<>>, TestPrefix}}

\* A case is what the caller of a record type starts with: a record and a
\* hash
Case(r, h) == [v |-> r, hash |-> h]

\* The cases of type t that start from a hash, with a zero record, and the
\* cases that start from a record, with an empty hash
HashCases(t, hashes) == {Case(ZeroRecord(t), h) : h \in hashes}

RecordCases(t, records) == {Case(r, <<>>) : r \in records}

OptCases(t) ==
    HashCases(t, OptHashes) \cup RecordCases(t, TextRecords(t, {<<>>, <<"a">>}))

\* A text field with the given tag
Text(name, tag) == StructField(name, "string", 0, tag)

\* The records over the raw fields all: every field holds one of the
\* values vals gives for it (vals maps a field position to a set of values)
RECURSIVE RecordsFrom(_, _, _)
RecordsFrom(all, vals, i) ==
    IF i > Len(all) THEN {<<>>}
    ELSE {(all[i].Index :> x) @@ r : x \in vals[i], r \in RecordsFrom(all, vals, i + 1)}

\* --- Groups: fields x and y of a param group, then a positional field

GroupX == Text("X", <<Param(<<"x">>), GroupTag>>)
GroupY == Text("Y", <<Param(<<"y">>), GroupTag>>)
GroupYOpt == Text("Y", <<Param(<<"y">>), GroupTag, OmitEmptyTag>>)

GroupTypes ==
    {<<GroupX, GroupY>>,
     <<GroupX, GroupYOpt, Text("S", <<>>)>>}

GroupValues == {<<"x", "=", "a">>, <<"y", "=", "b">>, <<"z", "=", "c">>}

\* One to MaxValues values joined by "," or by "$", and the "," joined
\* ones followed by one more fragment
GroupHashes ==
    LET seqs == SeqsUpTo(GroupValues, MaxValues) \ {<<>>}
    IN  {Join(vs, <<",">>) : vs \in seqs}
        \cup {Join(vs, <<"$">>) : vs \in seqs}
        \cup {Join(vs, <<",">>) \o <<"$", "s">> : vs \in seqs}

GroupCases(t) ==
    HashCases(t, GroupHashes) \cup RecordCases(t, TextRecords(t, {<<>>, <<"a">>}))

\* --- Inline fields of lengths 1 and 2, then nothing, or a field that is
\* not inline, of length 1 or 2 or of any length

InlineShape(n) == Shape("string", 0, <<InlineTag, LengthTag(n)>>)
FixedShape(n)  == Shape("string", 0, <<LengthTag(n)>>)

InlineTypes ==
    {MakeType(FALSE, ins \o tail) :
        ins \in SeqsUpTo({InlineShape(1), InlineShape(2)}, MaxFields - 1) \ {<<>>},
        tail \in {<<>>, <<FixedShape(1)>>, <<FixedShape(2)>>, <<ReqShape>>}}

\* One fragment: the first k letters; and two fragments
InlineHashes ==
    {Upto(Letters, k) : k \in 0..Len(Letters)}
    \cup {<<"a", "b", "$", "c">>, <<"a", "$", "b", "c">>}

InlineCases(t) == HashCases(t, InlineHashes)

\* --- Kinds, bases, encodings and lengths: one field, or the prefix field
\* and one field

KindTypes ==
    {<<StructField("I", "int", 0, <<>>)>>,
     <<StructField("I", "int", 0, <<BaseTag(16)>>)>>,
     <<StructField("U", "uint", 0, <<>>)>>,
     <<StructField("B", "slice", 0, <<>>)>>,
     <<StructField("A", "array", 2, <<>>)>>,
     <<StructField("A", "array", 2, <<LengthTag(1)>>)>>,
     <<Text("S", <<EncTag("none")>>)>>,
     <<Text("S", <<LengthTag(2)>>)>>,
     <<Text("S", <<Param(<<"p">>)>>)>>,
     <<Text(hashPrefix, <<>>), Text("S", <<EncTag("none")>>)>>,
     <<Text(hashPrefix, <<OmitEmptyTag>>), Text("S", <<>>)>>}

KindHashes ==
    {<<>>, <<"7">>, <<"0", "0", "7">>, <<"+", "7">>, <<"-", "7">>,
     <<"f", "f">>, <<"F", "F">>, <<"a", "b">>, <<"a", "!">>, <<"a", "$">>,
     <<"a", "$", "$", "b">>, <<"p", "=", "a">>, <<"p", "a">>, <<"_", "a">>,
     <<"$", "t", "$", "a", "b">>, <<"$", "t", "$", "_", "a">>,
     <<"$", "t", ",", "a", "b">>, <<"$", "t">>, <<"$", "$", "a">>}

KindValues(f) ==
    CASE f.Name = hashPrefix -> {<<>>, TestPrefix, <<"_">>, <<"t">>}
      [] f.Kind = "int"       -> {0, 7, 0 - 7, 255}
      [] f.Kind = "uint"      -> {0, 7}
      [] f.Kind = "array"     -> {Zeros(f.Len), <<"a", "b">>}
      [] OTHER                -> {<<>>, <<"a", "b">>, <<"a", "$", "b">>,
                                  <<"a", ",", "b">>, <<"_", "a">>}

KindCases(t) ==
    HashCases(t, KindHashes)
    \cup RecordCases(t, RecordsFrom(getRawFields(t, 0),
                                    [i \in 1..Len(getRawFields(t, 0)) |->
                                        KindValues(getRawFields(t, 0)[i])], 1))

\* --- Tags: param names shared at one depth and across depths of
\* embedding, and the tags normalize rejects

ParamS(name) == Text(name, <<Param(<<"s">>)>>)

TagTypes ==
    {<<ParamS("S1"), ParamS("S2")>>,
     <<ParamS("S1"), Text("N", <<>>), ParamS("S2")>>,
     <<Embedded("E", <<ParamS("S")>>), ParamS("S"), StructField("I", "int", 0, <<>>)>>,
     <<ParamS("S"), Embedded("E", <<ParamS("S")>>)>>,
     <<Embedded("E1", <<ParamS("S")>>), Embedded("E2", <<ParamS("S")>>)>>,
     <<Embedded("E1", <<ParamS("S")>>), Embedded("E2", <<ParamS("S")>>), ParamS("S")>>,
     <<ParamS("S"), Embedded("E1", <<ParamS("S")>>), Embedded("E2", <<ParamS("S")>>)>>,
     <<Text("S1", <<OmitEmptyTag, InlineTag>>)>>,
     <<Text("S1", <<GroupTag>>)>>,
     <<Text(hashPrefix, <<Param(<<"x">>)>>)>>,
     <<Text(hashPrefix, <<InlineTag>>)>>,
     <<Text("S1", <<InlineTag>>)>>,
     <<Text("S1", <<InlineTag, LengthTag(0)>>)>>,
     <<Text("N", <<>>), Text("S1", <<GroupTag>>)>>,
     <<Text("S1", <<GroupTag>>), ParamS("S2"), ParamS("S3")>>,
     <<ParamS("S2"), Text("S1", <<GroupTag>>), ParamS("S3")>>,
     <<Embedded("E", <<Text("S1", <<GroupTag>>)>>), ParamS("S")>>}

TagHashes ==
    {<<>>, <<"a">>, <<"s", "=", "a">>, <<"s", "=", "a", "$", "7">>,
     <<"s", "=", "a", "$", "s", "=", "b">>, <<"$", "f", "o", "o">>}

TagValues(f) == IF f.Kind = "int" THEN {7} ELSE {<<"a">>, <<"b">>}

TagCases(t) ==
    HashCases(t, TagHashes)
    \cup RecordCases(t, RecordsFrom(getRawFields(t, 0),
                                    [i \in 1..Len(getRawFields(t, 0)) |->
                                        TagValues(getRawFields(t, 0)[i])], 1))

\* --- The scenarios of the tests

Opt(name) == Text(name, <<OmitEmptyTag>>)

\* TestUnmarshal "optional fields"
OptionalFieldsType ==
    <<Text(hashPrefix, <<>>), Text("A", <<>>), Opt("O1"), Opt("O2"),
      Text("B", <<>>), Opt("O3"), Text("C", <<>>), Opt("O4"), Opt("O5"), Opt("O6")>>

OptionalFieldsHash == <<"$", "t", "e", "s", "t", "$", "a", "$", "b", "$", "c">>

\* TestUnmarshal "inline fields"
InlineFieldsType ==
    <<Text("S1", <<InlineTag, LengthTag(3)>>), Text("S2", <<LengthTag(3)>>)>>

\* two adjacent inline fields
AdjacentInlineType ==
    <<Text("S1", <<InlineTag, LengthTag(3)>>), Text("S2", <<InlineTag, LengthTag(3)>>)>>

Foobar == <<"f", "o", "o", "b", "a", "r">>

\* TestUnmarshalShouldFail "excessive param in group"
ExcessiveParamType ==
    <<Text("S1", <<Param(<<"x">>), GroupTag>>), Text("S2", <<Param(<<"y">>), GroupTag>>)>>

ExcessiveParamHash ==
    <<"x", "=", "b", "a", "r", ",", "y", "=", "b", "a", "z", ",", "z", "=", "f", "o", "o">>

ScenarioTypes ==
    {OptionalFieldsType, InlineFieldsType, AdjacentInlineType, ExcessiveParamType}

ScenarioCases(t) ==
    HashCases(t, (IF t = OptionalFieldsType THEN {OptionalFieldsHash} ELSE {})
                 \cup (IF t \in {InlineFieldsType, AdjacentInlineType} THEN {Foobar} ELSE {})
                 \cup (IF t = ExcessiveParamType THEN {ExcessiveParamHash} ELSE {}))

\* --- Params that are not grouped: an optional one before a positional
\* field, and a required one after a positional field

ParamTypes ==
    {<<Text("S", <<Param(<<"p">>), OmitEmptyTag>>), Text("N", <<>>)>>,
     <<Text("N", <<>>), Text("S", <<Param(<<"p">>)>>)>>}

ParamHashes ==
    {<<"a">>, <<"p", "=", "a">>, <<"a", "$", "b">>,
     <<"p", "=", "a", "$", "b">>, <<"p", "a", "$", "b">>, <<"q", "=", "a", "$", "b">>,
     <<"a", "$", "p", "=", "b">>, <<"a", "$", "p", "b">>, <<"a", "$", "q", "=", "b">>,
     <<"$", "t", "$", "a", "$", "q", "b">>}

ParamCases(t) ==
    HashCases(t, ParamHashes) \cup RecordCases(t, TextRecords(t, {<<>>, <<"a">>}))

\* --- Lengths and alphabets on a prefix field, a grouped param, a param
\* and an integer after an inline field

CheckedTypes ==
    {<<Text(hashPrefix, <<LengthTag(3)>>), Text("S", <<>>)>>,
     <<Text("N", <<>>), Text("S", <<Param(<<"x">>), GroupTag, LengthTag(1)>>)>>,
     <<Text("S", <<Param(<<"p">>), EncTag("base64"), LengthTag(2)>>)>>,
     <<Text("S1", <<InlineTag, LengthTag(2)>>), StructField("I", "int", 0, <<LengthTag(2)>>)>>}

CheckedHashes ==
    {<<"$", "t", "$", "a">>, <<"_", "a">>, <<"$", "t", "t", "$", "a">>,
     <<"$", "t", "$", "_", "a">>,
     <<"a", "$", "x", "=", "b">>, <<"a", "$", "x", "=", "!">>,
     <<"a", "$", "x", "=", "b", "c">>, <<"a", "$", "x", "=", "b", ",", "y", "=", "c">>,
     <<"a", "$", "y", "=", "c", ",", "x", "=", "!">>,
     <<"p", "=", "a", "b">>, <<"p", "=", "a", "+">>, <<"p", "=", "a", ".">>,
     <<"p", "=", "a">>, <<"a", "b">>, <<"a", "b", "0", "7">>, <<"a", "b", "7">>,
     <<"a", "!", "0", "7">>, <<"a">>}

CheckedValues(f) ==
    CASE f.Name = hashPrefix -> {<<>>, TestPrefix, <<"_">>}
      [] f.Kind = "int"       -> {7, 42}
      [] OTHER                -> {<<>>, <<"a">>, <<"a", "b">>, <<"a", "!">>, <<"a", "+">>}

CheckedCases(t) ==
    HashCases(t, CheckedHashes)
    \cup RecordCases(t, RecordsFrom(getRawFields(t, 0),
                                    [i \in 1..Len(getRawFields(t, 0)) |->
                                        CheckedValues(getRawFields(t, 0)[i])], 1))

\* --- Empty values: an omitempty field of each kind next to a field
\* without omitempty

EmptyTypes ==
    {<<StructField("I", "int", 0, <<>>),
       StructField("EI", "int", 0, <<OmitEmptyTag, LengthTag(2)>>), Text("S", <<>>)>>,
     <<StructField("EB", "array", 2, <<OmitEmptyTag>>), StructField("B", "array", 2, <<>>)>>,
     <<Text("ES", <<OmitEmptyTag, EncTag("base64")>>),
       StructField("ESl", "slice", 0, <<OmitEmptyTag>>), Text("S", <<>>)>>,
     <<StructField("B", "bool", 0, <<OmitEmptyTag>>), Text("S", <<>>)>>}

EmptyValues(f) ==
    CASE f.Kind = "int"   -> {0, 42}
      [] f.Kind = "array" -> {Zeros(f.Len), <<"a", "b">>}
      [] f.Kind = "bool"  -> {FALSE, TRUE}
      [] OTHER            -> {<<>>, <<"a">>, <<"!">>}

EmptyCases(t) ==
    HashCases(t, {<<"a">>, <<"a", "$", "b">>})
    \cup RecordCases(t, RecordsFrom(getRawFields(t, 0),
                                    [i \in 1..Len(getRawFields(t, 0)) |->
                                        EmptyValues(getRawFields(t, 0)[i])], 1))

\* --- Records that hold values when Unmarshal is called: a text, an
\* integer, a byte array that takes one byte, and a text

FrameTypes ==
    {<<Text("S", <<>>), StructField("I", "int", 0, <<>>),
       StructField("A", "array", 2, <<LengthTag(1)>>), Text("N", <<>>)>>}

FrameHashes ==
    {<<"a", "$", "!", "$", "c", "$", "d">>, <<"a", "$", "5", "$", "c", "$", "d">>,
     <<"a", "$", "5", "$", "c", "c", "$", "d">>, <<"a", "$", "5", "$", "c">>,
     <<"a", "$", "5", "$", "c", "$", "d", "$", "e">>}

FrameCases(t) ==
    {Case((<<0>> :> <<"x">>) @@ (<<1>> :> 7) @@ (<<2>> :> <<"y", "z">>) @@ (<<3>> :> <<"w">>), h) :
        h \in FrameHashes}

\* --- Inputs of the lexer: every string of at most MaxInput characters
\* that are a letter, a delimiter or "_", for a record of a text and an
\* optional grouped param

MaxInput == 4

LexChars == {"a", "$", ",", "_"}

LexTypes ==
    {<<Text("S", <<>>), Text("X", <<Param(<<"a">>), GroupTag, OmitEmptyTag>>)>>}

LexHashes == SeqsUpTo(LexChars, MaxInput)

LexCases(t) == HashCases(t, LexHashes)

\* --- A grouped param before an optional and a required text, an
\* optional grouped param before a required text, and two grouped params
\* of which one, with "=", starts the other

MixedTypes ==
    {<<GroupX, Opt("O"), Text("R", <<>>)>>,
     <<GroupYOpt, Text("S", <<>>)>>,
     <<Text("X", <<Param(<<"x">>), GroupTag, EncTag("none")>>),
       Text("Y", <<Param(<<"x", "=", "y">>), GroupTag, EncTag("none")>>)>>}

MixedHashes ==
    {<<"x", "=", "a", "$", "c">>, <<"x", "=", "a", "$", "c", "$", "d">>,
     <<"x", "=", "a", ",", "y", "=", "b", "$", "c">>, <<"x", "=", "a">>,
     <<"y", "=", "b", "$", "s">>, <<"y", "=", "b">>, <<"s">>,
     <<"y", "=", "b", ",", "z", "=", "c", "$", "s">>,
     <<"x", "=", "y", "=", "a", ",", "z", "=", "b">>,
     <<"x", "=", "a", ",", "x", "=", "y", "=", "b">>}

MixedCases(t) == HashCases(t, MixedHashes)

Types ==
    OptTypes \cup GroupTypes \cup InlineTypes \cup KindTypes \cup TagTypes
    \cup ScenarioTypes \cup ParamTypes \cup CheckedTypes \cup EmptyTypes
    \cup FrameTypes \cup LexTypes \cup MixedTypes

\* The cases of record type t
Cases(t) ==
    (IF t \in OptTypes THEN OptCases(t) ELSE {})
    \cup (IF t \in GroupTypes THEN GroupCases(t) ELSE {})
    \cup (IF t \in InlineTypes THEN InlineCases(t) ELSE {})
    \cup (IF t \in KindTypes THEN KindCases(t) ELSE {})
    \cup (IF t \in TagTypes THEN TagCases(t) ELSE {})
    \cup (IF t \in ScenarioTypes THEN ScenarioCases(t) ELSE {})
    \cup (IF t \in ParamTypes THEN ParamCases(t) ELSE {})
    \cup (IF t \in CheckedTypes THEN CheckedCases(t) ELSE {})
    \cup (IF t \in EmptyTypes THEN EmptyCases(t) ELSE {})
    \cup (IF t \in FrameTypes THEN FrameCases(t) ELSE {})
    \cup (IF t \in MixedTypes THEN MixedCases(t) ELSE {})
    \cup (IF t \in LexTypes THEN LexCases(t) ELSE {})

\* ------------------------------------------------------------------------
\* The program: a caller holding a record and a hash string of one record
\* type, calling Marshal and Unmarshal
\* ------------------------------------------------------------------------

VARIABLES
    typ,        \* the struct type of the caller's record
    typeCache,  \* var typeCache sync.Map, the entries of typ
    v,          \* the caller's record
    hash,       \* the caller's hash string
    last,       \* the last call and what it returned
    hsrc,       \* the record hash was marshaled from, if it was
    vsrc,       \* the hash v was unmarshaled from into a zero record, if it was
    calls,      \* the call each goroutine is in, when the calls run concurrently
    hashCache,  \* var hashCache sync.Map of package crypt
    registered, \* the RegisterHash calls made, in order
    checked,    \* the last call of crypt.Check and what it returned
    lexer,      \* the goroutine of lexer.run, when Parse is followed step by step
    tokens,     \* the channel l.tokens: whether it is closed, and what was sent
    parser      \* the locals of Parse in the calling goroutine

vars == <<typ, typeCache, v, hash, last, hsrc, vsrc, calls, hashCache, registered, checked,
          lexer, tokens, parser>>

\* No lexer goroutine, an open channel with nothing sent, no Parse running
NoLexer == [l |-> lex(<<>>), state |-> "nil", outbox |-> <<>>, pc |-> "exited"]
NoTokens == [closed |-> FALSE, sent |-> <<>>]
NoParser ==
    [pc |-> "none", tree |-> [Prefix |-> NilNode, Fragments |-> <<>>],
     group |-> NilNode, value |-> NilNode, err |-> NoError]

\* No call of crypt.Check yet
NoCheck == [op |-> "none", hash |-> <<>>, password |-> <<>>, err |-> "nil", at |-> 0]

\* The goroutines that call Marshal and Unmarshal concurrently
Goroutines == {1, 2}

\* A goroutine that is in no call: op and ptr are of the call it made last,
\* ref is the typeCache key of the *typeInfo it holds, err what the call
\* returned
NoCalls ==
    [g \in Goroutines |->
        [pc |-> "idle", op |-> "none", ptr |-> FALSE, ref |-> FALSE, err |-> NoError]]

NoCall ==
    [op |-> "none", ptr |-> FALSE, fresh |-> FALSE, err |-> NoError, log |-> <<>>,
     compiled |-> FALSE, in |-> <<>>]

Init ==
    \E t \in Types : \E c \in Cases(t) :
        /\ typ = t
        /\ typeCache = <<>>
        /\ v = c.v
        /\ hash = c.hash
        /\ last = NoCall
        /\ hsrc = [ok |-> FALSE, v |-> c.v]
        /\ vsrc = [ok |-> FALSE, s |-> <<>>]
        /\ calls = NoCalls
        /\ hashCache = <<>>
        /\ registered = <<>>
        /\ checked = NoCheck
        /\ lexer = NoLexer
        /\ tokens = NoTokens
        /\ parser = NoParser

\* s, err := Marshal(v) or Marshal(&v); hash = s
DoMarshal(ptr) ==
    \E r \in {Marshal(v, typ, ptr, typeCache)} :
        /\ Len(r.s) <= MaxHashLen
        /\ hash' = r.s
        /\ typeCache' = r.cache
        /\ last' = [op |-> "Marshal", ptr |-> ptr, fresh |-> FALSE, err |-> r.err,
                    log |-> <<>>, compiled |-> r.compiled, in |-> hash]
        /\ hsrc' = [ok |-> r.err.Kind = "nil", v |-> v]
        /\ UNCHANGED <<typ, v, vsrc, calls, hashCache, registered, checked, lexer, tokens, parser>>

\* err := Unmarshal(hash, &v), after v = T{} when fresh
DoUnmarshal(fresh) ==
    \E r \in {Unmarshal(hash, typ, IF fresh THEN ZeroRecord(typ) ELSE v, typeCache)} :
        /\ v' = r.v
        /\ typeCache' = r.cache
        /\ last' = [op |-> "Unmarshal", ptr |-> TRUE, fresh |-> fresh, err |-> r.err,
                    log |-> r.log, compiled |-> r.compiled, in |-> hash]
        /\ vsrc' = [ok |-> fresh /\ r.err.Kind = "nil", s |-> hash]
        /\ UNCHANGED <<typ, hash, hsrc, calls, hashCache, registered, checked, lexer, tokens, parser>>

Next ==
    \/ \E ptr \in BOOLEAN : DoMarshal(ptr)
    \/ \E fresh \in BOOLEAN : DoUnmarshal(fresh)

Spec == Init /\ [][Next]_vars

\* ------------------------------------------------------------------------
\* The program with concurrent callers: goroutines that call Marshal and
\* Unmarshal for one record type, each on a record and a hash of its own,
\* sharing typeCache.  A call is cut at its accesses to typeCache and to the
\* *typeInfo the cache holds.
\* ------------------------------------------------------------------------

\* The record types and hashes of the concurrent callers: a type with a
\* checked grouped param and a type normalize rejects
ConcTypes ==
    {<<Text("N", <<>>), Text("S", <<Param(<<"x">>), GroupTag, LengthTag(1)>>)>>,
     <<Text("S1", <<OmitEmptyTag, InlineTag>>)>>}

ConcHashes ==
    {<<"a", "$", "x", "=", "b">>, <<"a", "$", "x", "=", "!">>, <<"a", "$", "$">>}

ConcInit ==
    \E t \in ConcTypes : \E h \in ConcHashes :
        /\ typ = t
        /\ typeCache = <<>>
        /\ v = [ix \in DOMAIN ZeroRecord(t) |-> <<"a">>]
        /\ hash = h
        /\ last = NoCall
        /\ hsrc = [ok |-> FALSE, v |-> v]
        /\ vsrc = [ok |-> FALSE, s |-> <<>>]
        /\ calls = NoCalls
        /\ hashCache = <<>>
        /\ registered = <<>>
        /\ checked = NoCheck
        /\ lexer = NoLexer
        /\ tokens = NoTokens
        /\ parser = NoParser

\* Goroutine g enters Marshal(v) or Marshal(&v) (op = "Marshal") or
\* Unmarshal(hash, &v): Unmarshal parses the hash first and returns the
\* error of Parse without a look at typeCache
Call(g, op, ptr) ==
    /\ calls[g].pc = "idle"
    /\ op = "Unmarshal" => ptr
    /\ \E p \in {IF op = "Unmarshal" THEN Parse(hash).err ELSE NoError} :
          calls' = [calls EXCEPT ![g] =
                       [pc |-> IF p.Kind # "nil" THEN "idle" ELSE "Load",
                        op |-> op, ptr |-> ptr, ref |-> FALSE, err |-> p]]
    /\ UNCHANGED <<typ, typeCache, v, hash, last, hsrc, vsrc, hashCache, registered, checked, lexer, tokens, parser>>

\* f, ok := typeCache.Load(typ), for typ := indirectType(t)
Load(g) ==
    /\ calls[g].pc = "Load"
    /\ calls' = [calls EXCEPT ![g].pc = IF FALSE \in DOMAIN typeCache
                                        THEN "SetStruct" ELSE "LoadOrStore",
                              ![g].ref = FALSE]
    /\ UNCHANGED <<typ, typeCache, v, hash, last, hsrc, vsrc, hashCache, registered, checked, lexer, tokens, parser>>

\* info := getRawTypeInfo(typ); info.Struct = t; info.normalize(), and
\* f, _ = typeCache.LoadOrStore(t, info)
LoadOrStore(g) ==
    /\ calls[g].pc = "LoadOrStore"
    /\ \E r \in {normalize(typ, TypeString(calls[g].ptr))} :
          IF r.err.Kind # "nil"
          THEN /\ calls' = [calls EXCEPT ![g].pc = "idle", ![g].err = r.err]
               /\ UNCHANGED typeCache
          ELSE /\ calls' = [calls EXCEPT ![g].pc = "SetStruct", ![g].ref = calls[g].ptr]
               /\ typeCache' = IF calls[g].ptr \in DOMAIN typeCache
                               THEN typeCache
                               ELSE [k \in DOMAIN typeCache \cup {calls[g].ptr} |->
                                        IF k = calls[g].ptr THEN calls[g].ptr
                                        ELSE typeCache[k]]
    /\ UNCHANGED <<typ, v, hash, last, hsrc, vsrc, hashCache, registered, checked, lexer, tokens, parser>>

\* ti := &(*f.(*typeInfo)); ti.Struct = t
SetStruct(g) ==
    /\ calls[g].pc = "SetStruct"
    /\ typeCache' = [typeCache EXCEPT ![calls[g].ref] = calls[g].ptr]
    /\ calls' = [calls EXCEPT ![g].pc = "Return"]
    /\ UNCHANGED <<typ, v, hash, last, hsrc, vsrc, hashCache, registered, checked, lexer, tokens, parser>>

\* The rest of the call: Marshal names the struct in its errors by its own
\* t, Unmarshal by ti.Struct.String(), read when the error is made
Return(g) ==
    /\ calls[g].pc = "Return"
    /\ \E e \in {IF calls[g].op = "Marshal"
                  THEN Marshal(v, typ, calls[g].ptr, <<>>).err
                  ELSE Unmarshal(hash, typ, ZeroRecord(typ), <<>>).err} :
          calls' = [calls EXCEPT
                       ![g].pc = "idle",
                       ![g].err = IF calls[g].op = "Unmarshal" /\ e.Struct # ""
                                  THEN [e EXCEPT !.Struct = TypeString(typeCache[calls[g].ref])]
                                  ELSE e]
    /\ UNCHANGED <<typ, typeCache, v, hash, last, hsrc, vsrc, hashCache, registered, checked, lexer, tokens, parser>>

ConcNext ==
    \E g \in Goroutines :
        \/ \E op \in {"Marshal", "Unmarshal"} : \E ptr \in BOOLEAN : Call(g, op, ptr)
        \/ Load(g)
        \/ LoadOrStore(g)
        \/ SetStruct(g)
        \/ Return(g)

ConcSpec == ConcInit /\ [][ConcNext]_vars

\* ------------------------------------------------------------------------
\* The program with package crypt: packages that register their check
\* functions and a caller of crypt.Check
\* ------------------------------------------------------------------------

MaxRegistered == 3  \* calls of RegisterHash

\* The prefixes registered and the hashes and passwords checked
CryptPrefixes == {<<"$", "a", "$">>, <<"$", "a", ",">>, <<"_">>, <<>>}

CryptHashes ==
    {<<>>, <<"f">>, <<"$", "a", "$", "p">>, <<"$", "a", ",", "p">>, <<"$", "a">>,
     <<"$", "$", "p">>, <<"$", ",", "p">>, <<"_", "p">>, <<"$", "b", "$", "p">>,
     <<"$", "a", "$">>}

Passwords == {<<"p">>, <<"q">>}

CryptInit ==
    /\ typ = <<Text("S", <<>>)>>
    /\ typeCache = <<>>
    /\ v = ZeroRecord(typ)
    /\ hash = <<>>
    /\ last = NoCall
    /\ hsrc = [ok |-> FALSE, v |-> v]
    /\ vsrc = [ok |-> FALSE, s |-> <<>>]
    /\ calls = NoCalls
    /\ hashCache = <<>>
    /\ registered = <<>>
    /\ checked = NoCheck
    /\ lexer = NoLexer
    /\ tokens = NoTokens
    /\ parser = NoParser

\* crypt.RegisterHash(prefix, check)
DoRegisterHash(prefix, check) ==
    /\ Len(registered) < MaxRegistered
    /\ hashCache' = RegisterHash(hashCache, prefix, check)
    /\ registered' = Append(registered, [prefix |-> prefix, check |-> check])
    /\ UNCHANGED <<typ, typeCache, v, hash, last, hsrc, vsrc, calls, checked, lexer, tokens, parser>>

\* err := crypt.Check(h, password)
DoCheck(h, password) ==
    /\ checked' = [op |-> "Check", hash |-> h, password |-> password,
                   err |-> Check(hashCache, h, password), at |-> Len(registered)]
    /\ UNCHANGED <<typ, typeCache, v, hash, last, hsrc, vsrc, calls, hashCache, registered, lexer, tokens, parser>>

CryptNext ==
    \/ \E prefix \in CryptPrefixes : \E check \in CheckFuncs : DoRegisterHash(prefix, check)
    \/ \E h \in CryptHashes : \E password \in Passwords : DoCheck(h, password)

CryptSpec == CryptInit /\ [][CryptNext]_vars

\* ------------------------------------------------------------------------
\* Parse step by step: the goroutine of lexer.run sends the tokens on the
\* unbuffered channel l.tokens, the caller receives them in the Loop of
\* Parse.  A send and its receive are one step.
\* ------------------------------------------------------------------------

LexInit ==
    \E input \in LexHashes :
        /\ typ = <<Text("S", <<>>)>>
        /\ typeCache = <<>>
        /\ v = ZeroRecord(typ)
        /\ hash = input
        /\ last = NoCall
        /\ hsrc = [ok |-> FALSE, v |-> v]
        /\ vsrc = [ok |-> FALSE, s |-> <<>>]
        /\ calls = NoCalls
        /\ hashCache = <<>>
        /\ registered = <<>>
        /\ checked = NoCheck
        /\ lexer = [l |-> lex(input), state |-> "lexPrefix", outbox |-> <<>>, pc |-> "run"]
        /\ tokens = NoTokens
        /\ parser = [NoParser EXCEPT !.pc = "NextToken"]

\* state = state(l), up to the first send of the state function: outbox
\* holds the tokens the state function sends, in order
StateFn ==
    /\ lexer.pc = "run" /\ lexer.state # "nil"
    /\ \E r \in {IF lexer.state = "lexPrefix" THEN lexPrefix(lexer.l)
                  ELSE lexFragment(lexer.l)} :
          lexer' = [l |-> [r.l EXCEPT !.tokens = <<>>], state |-> r.next,
                    outbox |-> r.l.tokens,
                    pc |-> IF r.l.tokens = <<>> THEN "run" ELSE "send"]
    /\ UNCHANGED <<typ, typeCache, v, hash, last, hsrc, vsrc, calls, hashCache, registered,
                   checked, tokens, parser>>

\* l.tokens <- token{...} in emit or errorf, met by t := l.NextToken() in
\* the Loop of Parse, and the turn of the Loop for t
Handoff ==
    /\ lexer.pc = "send" /\ parser.pc = "NextToken" /\ ~tokens.closed
    /\ lexer' = [lexer EXCEPT !.outbox = Tail(@),
                              !.pc = IF Tail(lexer.outbox) = <<>> THEN "run" ELSE "send"]
    /\ tokens' = [tokens EXCEPT !.sent = Append(@, Head(lexer.outbox))]
    /\ parser' = parseToken(parser, Head(lexer.outbox))
    /\ UNCHANGED <<typ, typeCache, v, hash, last, hsrc, vsrc, calls, hashCache, registered,
                   checked>>

\* close(l.tokens), the end of run
Close ==
    /\ lexer.pc = "run" /\ lexer.state = "nil"
    /\ lexer' = [lexer EXCEPT !.pc = "exited"]
    /\ tokens' = [tokens EXCEPT !.closed = TRUE]
    /\ UNCHANGED <<typ, typeCache, v, hash, last, hsrc, vsrc, calls, hashCache, registered,
                   checked, parser>>

LexNext == StateFn \/ Handoff \/ Close

\* Each goroutine that can take a step takes one in the end
LexSpec == LexInit /\ [][LexNext]_vars /\ WF_vars(LexNext)

\* ------------------------------------------------------------------------
\* What the formulas below speak about
\* ------------------------------------------------------------------------

Unmarshaled == last.op = "Unmarshal"
Marshaled   == last.op = "Marshal"
Ok          == last.err.Kind = "nil"

\* The declared fields of typ, flattened, and those that are not the prefix
RawFields == getRawFields(typ, 0)
IsPrefixField(f) == f.Name = hashPrefix
BodyFields == SelectSeq(RawFields, LAMBDA f : ~IsPrefixField(f))
HasPrefixField == \E i \in 1..Len(RawFields) : IsPrefixField(RawFields[i])

\* The parse of the hash the last Unmarshal was given
InTree == Parse(last.in).tree
InParses == Parse(last.in).err.Kind = "nil"

\* typ is a prefix field, or none, and positional text fields, required
\* (no tag) or optional (omitempty)
PositionalType ==
    /\ \A i \in 1..Len(typ) : ~typ[i].Anonymous /\ typ[i].Kind = "string"
    /\ \A i \in 1..Len(RawFields) :
          IF IsPrefixField(RawFields[i]) THEN RawFields[i].Tag = <<>>
          ELSE RawFields[i].Tag \in {<<>>, <<OmitEmptyTag>>}

RequiredFields == SelectSeq(BodyFields, LAMBDA f : ~f.Opts.OmitEmpty)
OptionalFields == SelectSeq(BodyFields, LAMBDA f : f.Opts.OmitEmpty)

\* The input of the last Unmarshal is k lone fragments of non-empty text of
\* the hash alphabet, with |R| <= k <= |R|+|O|, and has a prefix if typ
\* has a prefix field
FragmentsFit ==
    /\ InParses
    /\ \A j \in 1..Len(InTree.Fragments) :
          /\ InTree.Fragments[j].Type = "value"
          /\ InTree.Fragments[j].Value # <<>>
          /\ Range(InTree.Fragments[j].Value) \subseteq Range(encoderHash)
    /\ Len(RequiredFields) <= Len(InTree.Fragments)
    /\ Len(InTree.Fragments) <= Len(BodyFields)
    /\ (HasPrefixField => InTree.Prefix.Type # "nil")

\* The fields of the record that hold a text, in declaration order
FilledFields == SelectSeq(BodyFields, LAMBDA f : v[f.Index] # <<>>)

\* C3: Optional-skip determinism.  When a record type of required and
\* optional positional fields is unmarshaled into a zero record from k
\* fragments, |R| <= k <= |R|+|O|, there is no error, the fields that got a
\* text hold the fragments in left-to-right order, every required field is
\* among them and exactly |R|+|O|-k optional fields stay empty.
C3_OptionalSkip ==
    (Unmarshaled /\ last.fresh /\ PositionalType /\ FragmentsFit) =>
        /\ Ok
        /\ Len(FilledFields) = Len(InTree.Fragments)
        /\ \A j \in 1..Len(FilledFields) :
              v[FilledFields[j].Index] = InTree.Fragments[j].Value
        /\ \A j \in 1..Len(RequiredFields) : v[RequiredFields[j].Index] # <<>>
        /\ Cardinality({j \in 1..Len(OptionalFields) : v[OptionalFields[j].Index] = <<>>})
              = Len(BodyFields) - Len(InTree.Fragments)

\* A required field was bound after an optional field was left empty and
\* another optional field was filled
C3_Witness ==
    /\ Unmarshaled /\ last.fresh /\ PositionalType /\ FragmentsFit /\ Ok
    /\ \E i, j, k \in 1..Len(BodyFields) :
          /\ i < k /\ j < k
          /\ BodyFields[i].Opts.OmitEmpty /\ v[BodyFields[i].Index] # <<>>
          /\ BodyFields[j].Opts.OmitEmpty /\ v[BodyFields[j].Index] = <<>>
          /\ ~BodyFields[k].Opts.OmitEmpty /\ v[BodyFields[k].Index] # <<>>

\* The Schema of typ, when it compiles
Schema == normalize(typ, "*T").ti
Compiles == normalize(typ, "*T").err.Kind = "nil"

\* The raw field a log entry is about
FieldOf(e) == CHOOSE f \in Range(RawFields) : f.Index = e.Index

Log == last.log
LastEntry == Log[Len(Log)]

\* The values of the group at fragment i (1-based) that a field has taken
Taken(i) ==
    {e.Sub : e \in {Log[h] : h \in {h \in 1..Len(Log) :
                       Log[h].What = "bound" /\ Log[h].Frag = i - 1 /\ Log[h].Sub > 0}}}

\* A grouped field has met fragment i
Opened(i) ==
    \E h \in 1..Len(Log) :
        Log[h].Frag = i - 1 /\ ~FieldOf(Log[h]).Opts.Prefix /\ FieldOf(Log[h]).Opts.Group
        /\ Log[h].What \in {"bound", "no match", "error"}

\* Unmarshal went on after fragment i: it ended without error, or a field
\* met a later fragment
LeftBehind(i) ==
    Ok \/ \E h \in 1..Len(Log) : Log[h].Frag > i - 1

\* The last thing Unmarshal did was to fail inside a grouped field
FailedInGroup ==
    /\ Log # <<>> /\ LastEntry.What = "error"
    /\ ~FieldOf(LastEntry).Opts.Prefix /\ FieldOf(LastEntry).Opts.Group

ExcessAt(node) ==
    /\ last.err.Kind = "UnmarshalTypeError"
    /\ last.err.Msg = "excessive fragment"
    /\ last.err.Value = "group"
    /\ last.err.Offset = End(node)

\* C4: A Group fragment is only left behind when each of its values has
\* been bound to a grouped field; when a field that is not grouped is
\* reached, or the fields end, while the open Group has unbound values,
\* Unmarshal returns "excessive fragment" at the end offset of the Group.
C4_GroupExcess ==
    (Unmarshaled /\ InParses /\ Compiles) =>
        \A i \in 1..Len(InTree.Fragments) :
            InTree.Fragments[i].Type = "group" =>
                /\ LeftBehind(i) => Taken(i) = 1..Len(InTree.Fragments[i].Values)
                /\ (Opened(i) /\ Taken(i) # 1..Len(InTree.Fragments[i].Values)) =>
                       \/ ExcessAt(InTree.Fragments[i])
                       \/ FailedInGroup

\* "x=bar,y=baz,z=foo" against the grouped fields x and y fails at offset
\* 17, with x and y bound
C4_Witness ==
    /\ Unmarshaled /\ last.fresh
    /\ last.in = <<"x", "=", "b", "a", "r", ",", "y", "=", "b", "a", "z", ",",
                   "z", "=", "f", "o", "o">>
    /\ Len(InTree.Fragments) = 1 /\ Taken(1) = {1, 2}
    /\ ExcessAt(InTree.Fragments[1]) /\ last.err.Offset = 17
    /\ v[<<0>>] = <<"b", "a", "r">> /\ v[<<1>>] = <<"b", "a", "z">>

\* The error Unmarshal gives when the input has run out
EOFError(msg, name) ==
    /\ last.err.Kind = "UnmarshalTypeError"
    /\ last.err.Msg = msg
    /\ last.err.Value = "EOF"
    /\ last.err.Offset = Len(last.in)
    /\ last.err.Field = name

\* C5: When the input runs out for an element that is not optional,
\* Unmarshal returns an error at offset len(input): "prefix not found" when
\* the Schema has a prefix field without omitempty and the input has no
\* prefix, "unexpected EOF" naming the field when a field without omitempty
\* is reached with no fragment left; a field with omitempty reached with
\* no fragment left keeps its default.
C5_EOF ==
    (Unmarshaled /\ InParses /\ Compiles) =>
        /\ (Schema.HashPrefix.Kind # "nil" /\ ~Schema.HashPrefix.Opts.OmitEmpty
              /\ InTree.Prefix.Type = "nil") =>
                 EOFError("prefix not found", hashPrefix)
        /\ (Log # <<>> /\ LastEntry.Left <= 0 /\ ~FieldOf(LastEntry).Opts.Prefix
              /\ ~FieldOf(LastEntry).Opts.OmitEmpty) =>
                 EOFError("unexpected EOF", LastEntry.Field)
        /\ (PositionalType /\ OptionalFields = <<>> /\ InTree.Fragments = <<>>
              /\ BodyFields # <<>> /\ (HasPrefixField => InTree.Prefix.Type # "nil")) =>
                 EOFError("unexpected EOF", BodyFields[1].Name)
        /\ \A h \in 1..Len(Log) :
              (Log[h].Left <= 0 /\ ~FieldOf(Log[h]).Opts.Prefix
                 /\ FieldOf(Log[h]).Opts.OmitEmpty) =>
                    /\ Log[h].What = "no fragment"
                    /\ last.fresh =>
                          v[Log[h].Index] = ZeroValue(FieldOf(Log[h]).Kind, FieldOf(Log[h]).Len)
        /\ (last.err.Msg \in {"prefix not found", "unexpected EOF"}) =>
              /\ last.err.Offset = Len(last.in)
              /\ \E i \in 1..Len(RawFields) :
                    RawFields[i].Name = last.err.Field /\ ~RawFields[i].Opts.OmitEmpty

\* A required field met the end of a non-empty input after an optional
\* field was left at its default for the same reason
C5_Witness ==
    /\ Unmarshaled /\ last.fresh /\ InParses /\ Compiles
    /\ last.in # <<>>
    /\ Len(Log) >= 2
    /\ Log[Len(Log) - 1].What = "no fragment"
    /\ EOFError("unexpected EOF", LastEntry.Field)
    /\ last.err.Offset > 0

\* The sum of the Length options of the fields fs
RECURSIVE SumLength(_)
SumLength(fs) == IF fs = <<>> THEN 0 ELSE Head(fs).Opts.Length + SumLength(Tail(fs))

\* The text of fragment text that field i of fs takes when each field
\* takes Length characters in turn
Substring(text, fs, i) ==
    Slice(text, SumLength(SubSeq(fs, 1, i - 1)), SumLength(SubSeq(fs, 1, i)))

\* s is one fragment of characters of the hash alphabet and no prefix
OneFragment(s) ==
    /\ s # <<>>
    /\ Range(s) \subseteq Range(encoderHash)
    /\ Parse(s).err.Kind = "nil"
    /\ Parse(s).tree.Prefix.Type = "nil"
    /\ Len(Parse(s).tree.Fragments) = 1

TextFields == \A i \in 1..Len(typ) : ~typ[i].Anonymous /\ typ[i].Kind = "string"

IsInline(f) == f.Tag = <<InlineTag, LengthTag(f.Opts.Length)>> /\ f.Opts.Length > 0
IsFixed(f)  == f.Tag = <<LengthTag(f.Opts.Length)>> /\ f.Opts.Length > 0

\* typ is inline fields of fixed lengths and nothing else
AllInline ==
    /\ TextFields /\ RawFields # <<>>
    /\ \A i \in 1..Len(RawFields) : IsInline(RawFields[i])

\* typ is one or more inline fields of fixed lengths and then a field of a
\* fixed length that is not inline
InlineThenFixed ==
    /\ TextFields /\ Len(RawFields) >= 2
    /\ \A i \in 1..(Len(RawFields) - 1) : IsInline(RawFields[i])
    /\ IsFixed(RawFields[Len(RawFields)])

\* Every field holds its substring of the fragment text
BoundInTurn(text) ==
    \A i \in 1..Len(RawFields) : v[RawFields[i].Index] = Substring(text, RawFields, i)

\* C7 (as it stands): inline fields that take the whole text of the only
\* fragment are bound in turn and Unmarshal returns no error, as for two
\* inline fields of length 3 and "foobar".
C7_AdjacentInline ==
    (Unmarshaled /\ last.fresh /\ AllInline /\ OneFragment(last.in)
       /\ Len(last.in) = SumLength(RawFields)) =>
          Ok /\ BoundInTurn(last.in)

\* C8: Inline fields of lengths L1..Ln and then a field of length M that
\* is not inline, unmarshaled from one fragment of L1+...+Ln+M characters,
\* are bound to the consecutive substrings without error, and Marshal of
\* that record gives the fragment back.
C8_InlineThenFixed ==
    /\ (Unmarshaled /\ last.fresh /\ InlineThenFixed /\ OneFragment(last.in)
          /\ Len(last.in) = SumLength(RawFields)) =>
             Ok /\ BoundInTurn(last.in)
    /\ (Marshaled /\ vsrc.ok /\ InlineThenFixed /\ OneFragment(vsrc.s)
          /\ Len(vsrc.s) = SumLength(RawFields)) =>
             Ok /\ hash = vsrc.s

\* Two inline fields and a fixed field were bound and marshaled back
C8_Witness ==
    /\ Marshaled /\ vsrc.ok /\ InlineThenFixed /\ OneFragment(vsrc.s)
    /\ Len(RawFields) = 3
    /\ Len(vsrc.s) = SumLength(RawFields)
    /\ BoundInTurn(vsrc.s)
    /\ hash = vsrc.s

\* The raw fields that carry param name p, and the pairs of them at one
\* depth of embedding
Carrying(p) == {i \in 1..Len(RawFields) : RawFields[i].Opts.Param = p}
Depth(i) == Len(RawFields[i].Index)
ParamNames == {RawFields[i].Opts.Param : i \in 1..Len(RawFields)} \ {<<>>}
Clash(p) == {pr \in Carrying(p) \X Carrying(p) : pr[1] < pr[2] /\ Depth(pr[1]) = Depth(pr[2])}
Clashes == UNION {Clash(p) : p \in ParamNames}

\* The first raw field normalize rejects, and the first raw field whose
\* param name has a clash; Len(RawFields)+1 when there is none
Least(S) == IF S = {} THEN Len(RawFields) + 1 ELSE CHOOSE i \in S : \A j \in S : i <= j
FirstInvalid == Least({i \in 1..Len(RawFields) : ~isValid(RawFields[i])})
FirstClashing == Least({i \in 1..Len(RawFields) : Clash(RawFields[i].Opts.Param) # {}})

\* The last call compiled, or looked up, the Schema
Called == Marshaled \/ Unmarshaled
ReachedCompiler == Marshaled \/ (Unmarshaled /\ InParses)

\* The error is the TagParamError of a clash: the later field and its tag
\* first, the earlier field and its tag second
NamesClash ==
    /\ last.err.Kind = "TagParamError"
    /\ last.err.Struct = TypeString(last.ptr)
    /\ \E pr \in Clashes :
          /\ last.err.Field = RawFields[pr[2]].Name /\ last.err.Tag = RawFields[pr[2]].Tag
          /\ last.err.Field2 = RawFields[pr[1]].Name /\ last.err.Tag2 = RawFields[pr[1]].Tag

NamesInvalid(i) ==
    /\ last.err.Kind = "errorString"
    /\ last.err.Msg = "invalid tag in field"
    /\ last.err.Struct = TypeString(last.ptr)
    /\ last.err.Field = RawFields[i].Name
    /\ last.err.Tag = RawFields[i].Tag

\* The invariants of a field of a Schema
FieldInvariant(f) ==
    /\ f.Opts.Group => f.Opts.Param # <<>>
    /\ f.Opts.Param # <<>> => ~f.Opts.Prefix
    /\ f.Opts.Inline => (f.Opts.Length > 0 /\ ~f.Opts.Prefix)
    /\ f.Opts.OmitEmpty => ~f.Opts.Inline

\* The call got a Schema from getTypeInfo
GotSchema == ReachedCompiler /\ last.err.Kind \notin {"errorString", "TagParamError"}

SchemaInvariant ==
    /\ \A i \in 1..Len(Schema.Fields) : FieldInvariant(Schema.Fields[i])
    /\ Schema.HashPrefix.Kind # "nil" => FieldInvariant(Schema.HashPrefix)

\* C9 (as it stands): every Schema the compiler returns keeps the
\* invariants of its fields, and a type with a field that breaks one makes
\* Marshal and Unmarshal return "invalid tag in field" naming the struct
\* type, the field and its tag.
C9_Original ==
    /\ GotSchema => SchemaInvariant
    /\ (Called /\ FirstInvalid <= Len(RawFields)) =>
          \E i \in 1..Len(RawFields) : ~isValid(RawFields[i]) /\ NamesInvalid(i)

\* C9 (amended): every Schema the compiler returns keeps the invariants of
\* its fields; a type with a field that breaks one makes Marshal, and
\* Unmarshal of an input that parses, return "invalid tag in field" naming
\* the struct type, the first such field and its tag, unless a field of a
\* clashing param name comes before it.
C9_SchemaInvariants ==
    /\ GotSchema => (Compiles /\ SchemaInvariant)
    /\ (ReachedCompiler /\ FirstInvalid <= Len(RawFields) /\ FirstInvalid < FirstClashing) =>
          NamesInvalid(FirstInvalid)

\* Marshal by value returned the error for a group field without param
\* that comes after a valid field
C9_Witness ==
    /\ Marshaled /\ ~last.ptr
    /\ FirstInvalid = 2 /\ NamesInvalid(2)
    /\ RawFields[2].Opts.Group /\ RawFields[2].Opts.Param = <<>>
    /\ last.err.Struct = "T"

\* The fields of the Schema that carry param name p
Kept(p) == {i \in 1..Len(Schema.Fields) : Schema.Fields[i].Opts.Param = p}

\* The least depth of the fields carrying p is the depth of one of them
ShallowestAlone(p) ==
    Cardinality({i \in Carrying(p) : \A j \in Carrying(p) : Depth(i) <= Depth(j)}) = 1

\* The raw fields that carry a param name and are not in the Schema
Shadowed ==
    {j \in 1..Len(RawFields) :
        /\ RawFields[j].Opts.Param # <<>>
        /\ \A i \in 1..Len(Schema.Fields) : Schema.Fields[i].Index # RawFields[j].Index}

ZeroOf(j) == ZeroValue(RawFields[j].Kind, RawFields[j].Len)

\* C10 (as it stands): of the fields that share a param name the Schema
\* keeps one, the shallowest, and the others are neither marshaled nor
\* bound; the compilation fails only when the least depth is the depth of
\* two of them, not when two deeper fields share a depth.
C10_Shadowing ==
    (ReachedCompiler /\ FirstInvalid > Len(RawFields)) =>
        /\ (\A p \in ParamNames : ShallowestAlone(p)) <=> GotSchema
        /\ GotSchema =>
              \A p \in ParamNames :
                  /\ Cardinality(Kept(p)) = 1
                  /\ \A i \in Kept(p) : \A j \in Carrying(p) :
                        Len(Schema.Fields[i].Index) <= Depth(j)
        /\ (GotSchema /\ Unmarshaled /\ last.fresh) =>
              \A j \in Shadowed : v[RawFields[j].Index] = ZeroOf(j)
        /\ (GotSchema /\ Marshaled) =>
              hash = Marshal([ix \in DOMAIN v |->
                                IF \E j \in Shadowed : RawFields[j].Index = ix
                                THEN ZeroOf(CHOOSE j \in Shadowed : RawFields[j].Index = ix)
                                ELSE v[ix]],
                             typ, last.ptr, <<>>).s

\* The fields the Schema names: the prefix field and the fields
NamedFields ==
    (IF Schema.HashPrefix.Kind # "nil" THEN <<Schema.HashPrefix>> ELSE <<>>) \o Schema.Fields

\* Record r has every field without omitempty set
RequiredSet(r) ==
    \A i \in 1..Len(NamedFields) :
        ~NamedFields[i].Opts.OmitEmpty => ~isEmpty(NamedFields[i].Kind, r[NamedFields[i].Index])

\* v is r on every field the Schema names
SameRecord(r) ==
    \A i \in 1..Len(NamedFields) : v[NamedFields[i].Index] = r[NamedFields[i].Index]

\* The hash is Marshal of hsrc.v and the last call unmarshaled it into a
\* zero record
RoundTripA == Unmarshaled /\ last.fresh /\ hsrc.ok /\ Compiles

Rendered(f, r) == marshal("T", f, r[f.Index]).s

\* p is "_", "$id$" or "$id,"
WellFormedPrefix(p) ==
    /\ Parse(p).err.Kind = "nil"
    /\ Parse(p).tree.Prefix.Type = "prefix"
    /\ Parse(p).tree.Prefix.Value = p
    /\ Parse(p).tree.Fragments = <<>>

\* No field of the Schema is omitempty or inline, the text of every field
\* of r is not empty and has no "$" and no ",", the text of the first field
\* does not start with "_", and the prefix field holds a prefix
Unambiguous(r) ==
    /\ \A i \in 1..Len(Schema.Fields) :
          /\ ~Schema.Fields[i].Opts.OmitEmpty /\ ~Schema.Fields[i].Opts.Inline
          /\ Rendered(Schema.Fields[i], r) # <<>>
          /\ Range(Rendered(Schema.Fields[i], r)) \cap delimChars = {}
    /\ Schema.Fields # <<>> => Rendered(Schema.Fields[1], r)[1] # "_"
    /\ Schema.HashPrefix.Kind # "nil" =>
          /\ ~Schema.HashPrefix.Opts.OmitEmpty
          /\ WellFormedPrefix(r[Schema.HashPrefix.Index])

RoundTripB == Marshaled /\ vsrc.ok

PlainType ==
    /\ Compiles
    /\ \A i \in 1..Len(typ) : ~typ[i].Anonymous
    /\ \A i \in 1..Len(Schema.Fields) :
          /\ Schema.Fields[i].Kind \in {"string", "slice", "array"}
          /\ Schema.Fields[i].Opts.Param = <<>>
          /\ ~Schema.Fields[i].Opts.Group
          /\ ~Schema.Fields[i].Opts.Inline
          /\ ~Schema.Fields[i].Opts.OmitEmpty
          /\ Schema.Fields[i].Kind = "array" => Schema.Fields[i].Opts.Length = Schema.Fields[i].Len

\* s has one prefix token at most, a prefix only if typ has a prefix
\* field, and no "$" or "," at its end
PlainInput(s) ==
    /\ Cardinality({i \in 1..Len(Tokens(s)) : Tokens(s)[i].Type = "tokenPrefix"}) <= 1
    /\ Parse(s).tree.Prefix.Type # "nil" => HasPrefixField
    /\ s # <<>> => s[Len(s)] \notin delimChars

NoInline == \A i \in 1..Len(Schema.Fields) : ~Schema.Fields[i].Opts.Inline

\* Log entry h is a field with a param name, not grouped, looking at a
\* lone Value fragment
ParamMeetsValue(h) ==
    /\ ~FieldOf(Log[h]).Opts.Prefix
    /\ ~FieldOf(Log[h]).Opts.Group
    /\ FieldOf(Log[h]).Opts.Param # <<>>
    /\ Log[h].What \in {"bound", "no match", "error"}
    /\ Log[h].Frag < Len(InTree.Fragments)
    /\ InTree.Fragments[Log[h].Frag + 1].Type = "value"

\* The text of the fragment log entry h looks at, and the marker of its
\* field
FragText(h) == InTree.Fragments[Log[h].Frag + 1].Value
Marker(h) == FieldOf(Log[h]).Opts.Param \o <<"=">>

\* The characters of s that its prefix tokens span: where the fragments
\* start
RECURSIVE SpanOfPrefixes(_, _)
SpanOfPrefixes(toks, i) ==
    IF i > Len(toks) \/ toks[i].Type # "tokenPrefix" THEN 0
    ELSE Len(toks[i].Value) + SpanOfPrefixes(toks, i + 1)

BodyStart(s) == SpanOfPrefixes(Tokens(s), 1)

\* The texts the parser gave the values of fragment k (1-based) of the last
\* input, and the offset in the input right after value j of fragment k,
\* counted over the texts and the delimiters before it
ValueTexts(k) ==
    IF InTree.Fragments[k].Type = "group"
    THEN [j \in 1..Len(InTree.Fragments[k].Values) |-> InTree.Fragments[k].Values[j].Value]
    ELSE <<InTree.Fragments[k].Value>>

RECURSIVE TextsBefore(_)
TextsBefore(k) == IF k = 0 THEN <<>> ELSE TextsBefore(k - 1) \o ValueTexts(k)

EndOfValue(k, j) ==
    BodyStart(last.in)
    + Len(Join(TextsBefore(k - 1) \o SubSeq(ValueTexts(k), 1, j), <<"$">>))

EndOfFragment(k) == EndOfValue(k, Len(ValueTexts(k)))

\* The error is msg for the field of log entry h at the end of its fragment
FragmentError(h, msg) ==
    /\ h = Len(Log) /\ Log[h].What = "error"
    /\ last.err.Kind = "UnmarshalTypeError"
    /\ last.err.Msg = msg
    /\ last.err.Field = Log[h].Field
    /\ last.err.Offset = EndOfFragment(Log[h].Frag + 1)

\* C11 (as it stands): a field with a param name that is not grouped binds
\* a lone Value fragment only if its text starts with "<param>=", and then
\* binds the text after the marker; a fragment without the marker gives
\* "param not found" at the end of the fragment, or leaves an omitempty
\* field skipped with the fragment still to be consumed.
C11_ParamMarker ==
    (Unmarshaled /\ InParses /\ Compiles /\ NoInline
       /\ \A j \in 1..Len(InTree.Fragments) : InTree.Fragments[j].Type = "value") =>
        \A h \in 1..Len(Log) :
            ParamMeetsValue(h) =>
                /\ Log[h].What = "bound" =>
                      /\ HasPrefix(FragText(h), Marker(h))
                      /\ Log[h].Text = From(FragText(h), Len(Marker(h)))
                /\ ~HasPrefix(FragText(h), Marker(h)) =>
                      IF FieldOf(Log[h]).Opts.OmitEmpty
                      THEN /\ Log[h].What = "no match"
                           /\ h < Len(Log) => Log[h + 1].Frag = Log[h].Frag
                      ELSE FragmentError(h, "param not found")

\* Text t has the length field f fixes and is of the alphabet of f
TextOk(f, t) ==
    /\ f.Opts.Length > 0 => Len(t) = f.Opts.Length
    /\ f.Opts.Encoding # "none" => Range(t) \subseteq Alphabet(f.Opts.Encoding)

\* The error of a text that is not TextOk
CheckError == last.err.Msg \in {"length mismatch", "invalid character"}

\* Marshal writes field i of the Schema: the prefix field always, another
\* field unless it is omitempty and empty
Written(i) ==
    \/ NamedFields[i].Opts.Prefix
    \/ ~(NamedFields[i].Opts.OmitEmpty /\ isEmpty(NamedFields[i].Kind, v[NamedFields[i].Index]))

\* The fields Marshal writes whose text is not TextOk
BadlyRendered ==
    {i \in 1..Len(NamedFields) :
        Written(i) /\ ~TextOk(NamedFields[i], Rendered(NamedFields[i], v))}

\* The fields Marshal writes whose kind it does not support
Unsupported ==
    {i \in 1..Len(NamedFields) :
        Written(i) /\ marshal("T", NamedFields[i], v[NamedFields[i].Index]).err.Kind # "nil"}

\* C12: Unmarshal binds to a field of a fixed length only a text of that
\* length and to a field with an alphabet only a text of that alphabet;
\* otherwise it returns "length mismatch" or "invalid character" naming
\* the field, whose value stays as it was.  Marshal returns the same kind
\* of error, and no string, when the text of a field it writes, the prefix
\* field included, is not of the fixed length or of the alphabet (and no
\* field before it is of a kind Marshal does not support).
C12_LengthAndAlphabet ==
    /\ (Unmarshaled /\ InParses /\ Compiles) =>
          /\ \A h \in 1..Len(Log) :
                Log[h].What \in {"bound", "prefix"} => TextOk(FieldOf(Log[h]), Log[h].Text)
          /\ CheckError =>
                /\ Log # <<>> /\ LastEntry.What = "error"
                /\ last.err.Kind = "UnmarshalTypeError"
                /\ last.err.Field = LastEntry.Field
                /\ last.err.Struct = "*T"
                /\ last.err.Msg = "length mismatch" => FieldOf(LastEntry).Opts.Length > 0
                /\ last.err.Msg = "invalid character" =>
                      /\ FieldOf(LastEntry).Opts.Encoding # "none"
                      /\ last.err.Char \notin Alphabet(FieldOf(LastEntry).Opts.Encoding)
                      /\ last.err.Char \in Range(last.in)
                /\ last.fresh =>
                      v[LastEntry.Index] =
                          ZeroValue(FieldOf(LastEntry).Kind, FieldOf(LastEntry).Len)
    /\ (Marshaled /\ Compiles) =>
          /\ Ok => BadlyRendered = {}
          /\ (BadlyRendered # {} /\ \A i \in Unsupported : i > Least(BadlyRendered)) =>
                /\ hash = <<>>
                /\ last.err.Kind = "UnsupportedValueError"
                /\ CheckError
                /\ last.err.Struct = TypeString(last.ptr)
                /\ last.err.Field = NamedFields[Least(BadlyRendered)].Name
                /\ last.err.Msg = "length mismatch" <=>
                      (NamedFields[Least(BadlyRendered)].Opts.Length > 0
                         /\ Len(Rendered(NamedFields[Least(BadlyRendered)], v))
                               # NamedFields[Least(BadlyRendered)].Opts.Length)

\* Unmarshal into a zero record bound a field and then met, in a group, a
\* value of the right length with a character outside the alphabet
C12_Witness ==
    /\ Unmarshaled /\ last.fresh /\ InParses /\ Compiles
    /\ Len(Log) = 2 /\ Log[1].What = "bound"
    /\ last.err.Msg = "invalid character" /\ last.err.Char = "!"
    /\ FieldOf(LastEntry).Opts.Group /\ FieldOf(LastEntry).Opts.Length = 1
    /\ InTree.Fragments[2].Type = "group"
    /\ v[LastEntry.Index] = <<>>
    /\ v[Log[1].Index] # <<>>

\* The characters of fragment k the inline fields have taken
RECURSIVE TakenInline(_, _)
TakenInline(k, h) ==
    IF h = 0 THEN 0
    ELSE TakenInline(k, h - 1)
         + (IF Log[h].What = "bound" /\ Log[h].Frag = k - 1 /\ FieldOf(Log[h]).Opts.Inline
            THEN Len(Log[h].Text) ELSE 0)

\* Fragment k (1-based) has been consumed: each value of a group is bound
\* to a field, a lone value is bound to a field that is not inline, or its
\* whole text is taken by inline fields
Consumed(k) ==
    IF InTree.Fragments[k].Type = "group"
    THEN Taken(k) = 1..Len(InTree.Fragments[k].Values)
    ELSE \/ \E h \in 1..Len(Log) :
               /\ Log[h].What = "bound" /\ Log[h].Frag = k - 1
               /\ ~FieldOf(Log[h]).Opts.Inline
         \/ /\ InTree.Fragments[k].Value # <<>>
            /\ TakenInline(k, Len(Log)) = Len(InTree.Fragments[k].Value)

Unconsumed == {k \in 1..Len(InTree.Fragments) : ~Consumed(k)}

\* Unmarshal went through every field without an error of a field
FieldsDone == Log = <<>> \/ LastEntry.What # "error"

\* The error after the last field, for fragment k
ExcessiveFragment(k) ==
    /\ last.err.Kind = "UnmarshalTypeError"
    /\ last.err.Msg = "excessive fragment"
    /\ last.err.Field = "" /\ last.err.Struct = ""
    /\ last.err.Value = InTree.Fragments[k].Type
    /\ last.err.Offset = EndOfFragment(k)

\* C13 (as it stands): Unmarshal returns nil only if every fragment has
\* been consumed by some field; when the fields are done and a fragment is
\* left, it returns "excessive fragment" with no field name at the end
\* offset of the first fragment that is not consumed.
C13_Excess ==
    (Unmarshaled /\ InParses /\ Compiles) =>
        /\ Ok => Unconsumed = {}
        /\ (FieldsDone /\ Unconsumed # {}) => ExcessiveFragment(Least(Unconsumed))

\* The error of the last Unmarshal was raised for a node of the tree
NodeError ==
    /\ Unmarshaled /\ InParses
    /\ last.err.Kind = "UnmarshalTypeError"
    /\ last.err.Value \in {"prefix", "value", "group"}

\* The first value of the group at fragment k that starts with marker m
FirstMarked(k, m) ==
    CHOOSE j \in 1..Len(ValueTexts(k)) :
        /\ HasPrefix(ValueTexts(k)[j], m)
        /\ \A i \in 1..(j - 1) : ~HasPrefix(ValueTexts(k)[i], m)

\* The offsets in the input right after the node an error of the last
\* Unmarshal was raised for.  For the prefix: the end of the prefix.  For
\* an error of a field: the end of the fragment the field was looking at,
\* or of the value of the group it was binding.  For an error after the
\* last field: the end of the fragment next to the last one looked at, or
\* of that one.
NodeEnds ==
    IF last.err.Value = "prefix" THEN {BodyStart(last.in)}
    ELSE IF Log # <<>> /\ LastEntry.What = "error"
    THEN IF last.err.Value = "value" /\ InTree.Fragments[LastEntry.Frag + 1].Type = "group"
         THEN {EndOfValue(LastEntry.Frag + 1, FirstMarked(LastEntry.Frag + 1, Marker(Len(Log))))}
         ELSE {EndOfFragment(LastEntry.Frag + 1)}
    ELSE {EndOfFragment(k) :
            k \in {k \in 1..Len(InTree.Fragments) :
                     /\ InTree.Fragments[k].Type = last.err.Value
                     /\ Log # <<>> => k \in {LastEntry.Frag + 1, LastEntry.Frag + 2}
                     /\ Log = <<>> => k = 1}}

\* The input of the last Unmarshal has one prefix at most
OnePrefix ==
    Cardinality({i \in 1..Len(Tokens(last.in)) : Tokens(last.in)[i].Type = "tokenPrefix"}) <= 1

\* C14 (as it stands): every UnmarshalTypeError raised for a prefix, value
\* or group node carries the offset in the input right after that node,
\* for every input the parser accepts.
C14_Offsets == NodeError => last.err.Offset \in NodeEnds

\* ------------------------------------------------------------------------
\* The layout of a marshaled hash
\* ------------------------------------------------------------------------

\* The fields of the Schema that Marshal writes for the record v, in Schema
\* order: each but the empty omitempty ones
WrittenFields ==
    SelectSeq(Schema.Fields, LAMBDA f : ~(f.Opts.OmitEmpty /\ isEmpty(f.Kind, v[f.Index])))

\* The text of a written field with its marker
Piece(f) ==
    (IF f.Opts.Param # <<>> THEN f.Opts.Param \o <<"=">> ELSE <<>>) \o Rendered(f, v)

\* The text of the prefix field
PrefixPiece ==
    IF Schema.HashPrefix.Kind # "nil" THEN Rendered(Schema.HashPrefix, v) ELSE <<>>

\* The separator between written fields p and f as the claim has it, and
\* with "no separator" after every inline field
SeparatorClaimed(p, f) ==
    IF p.Opts.Inline /\ f.Opts.Inline THEN <<>>
    ELSE IF p.Opts.Group /\ f.Opts.Group THEN <<",">> ELSE <<"$">>

SeparatorAfter(p, f) ==
    IF p.Opts.Inline THEN <<>>
    ELSE IF p.Opts.Group /\ f.Opts.Group THEN <<",">> ELSE <<"$">>

\* C15 (as it stands): the output of Marshal is the prefix, then the
\* written fields in Schema order, with nothing between the prefix and the
\* first field, and between two written fields nothing when both are
\* inline, "," when both are grouped, "$" otherwise; a param field is
\* written as "<param>=" and its text.
C15_Original ==
    (Marshaled /\ Compiles /\ Ok) =>
        hash = PrefixPiece
               \o Join([i \in 1..Len(WrittenFields) |->
                          (IF i = 1 THEN <<>>
                           ELSE SeparatorClaimed(WrittenFields[i - 1], WrittenFields[i]))
                          \o Piece(WrittenFields[i])], <<>>)

\* C15 (amended): as above, with nothing between two written fields when
\* the earlier one is inline, whatever the later one is.
C15_Layout ==
    (Marshaled /\ Compiles /\ Ok) =>
        hash = PrefixPiece
               \o Join([i \in 1..Len(WrittenFields) |->
                          (IF i = 1 THEN <<>>
                           ELSE SeparatorAfter(WrittenFields[i - 1], WrittenFields[i]))
                          \o Piece(WrittenFields[i])], <<>>)

\* Marshal wrote two grouped params with "," and a third field after "$"
C15_Witness ==
    /\ Marshaled /\ Compiles /\ Ok
    /\ Len(WrittenFields) = 3
    /\ WrittenFields[1].Opts.Group /\ WrittenFields[2].Opts.Group
    /\ ~WrittenFields[3].Opts.Group
    /\ hash = Piece(WrittenFields[1]) \o <<",">> \o Piece(WrittenFields[2])
              \o <<"$">> \o Piece(WrittenFields[3])

\* ------------------------------------------------------------------------
\* Empty values of omitempty fields
\* ------------------------------------------------------------------------

\* x is the zero value of the kind of field f
IsZero(f, x) == x = ZeroValue(f.Kind, f.Len)

\* x has no byte (text, []byte, [n]byte), or is the zero value of another kind
HasNothing(f, x) == IF f.Kind = "array" THEN f.Len = 0 ELSE IsZero(f, x)

\* The fields of the Schema that stay when the omitempty ones with an Empty
\* value are left out
Staying(Empty(_, _)) ==
    SelectSeq(Schema.Fields, LAMBDA f : ~(f.Opts.OmitEmpty /\ Empty(f, v[f.Index])))

\* The text of these fields with their markers and separators
TextOf(fields) ==
    PrefixPiece
    \o Join([i \in 1..Len(fields) |->
               (IF i = 1 THEN <<>> ELSE SeparatorAfter(fields[i - 1], fields[i]))
               \o Piece(fields[i])], <<>>)

\* The error of rendering field f, if any
ErrorOf(f) == marshalValue(TypeString(last.ptr), f, v[f.Index]).err

\* The first error of rendering the prefix field and then these fields
FirstError(fields) ==
    IF Schema.HashPrefix.Kind # "nil" /\ ErrorOf(Schema.HashPrefix).Kind # "nil"
    THEN ErrorOf(Schema.HashPrefix)
    ELSE IF \E i \in 1..Len(fields) : ErrorOf(fields[i]).Kind # "nil"
    THEN ErrorOf(fields[Least({i \in 1..Len(fields) : ErrorOf(fields[i]).Kind # "nil"})])
    ELSE NoError

\* C16 (as it stands): Marshal leaves out an omitempty field whose value is
\* the zero value of its kind (zero integer, empty text, empty []byte,
\* all-zero byte array): the output and the error are those of the other
\* fields alone, so the field gives no text, no separator and no error,
\* while a field without omitempty is rendered whatever its value.
C16_Original ==
    (Marshaled /\ Compiles) =>
        /\ last.err = FirstError(Staying(IsZero))
        /\ Ok => hash = TextOf(Staying(IsZero))

\* What isEmpty does instead: a byte array is empty only when its length
\* is 0, so that an omitempty [n]byte field with n > 0 is always rendered,
\* all-zero or not.
OmitEmptyByLength ==
    (Marshaled /\ Compiles) =>
        /\ last.err = FirstError(Staying(HasNothing))
        /\ Ok => hash = TextOf(Staying(HasNothing))

\* ------------------------------------------------------------------------
\* The cache of Schemas
\* ------------------------------------------------------------------------

\* C17: the Schema of a record type is compiled once: once a call has
\* compiled the type and stored its Schema, no later call of Marshal or
\* Unmarshal, with the record by value or by pointer, compiles it again.
C17_CompiledOnce ==
    [][typeCache # <<>> => ~last'.compiled]_vars

\* C18: concurrent calls of Marshal and Unmarshal for one record type are
\* safe: a *typeInfo in typeCache is not written after it was stored, so
\* that the struct a call names in its error is the one the call was made
\* with, whatever the other goroutines do.
C18_Concurrent ==
    \A g \in Goroutines :
        (calls[g].pc = "idle" /\ calls[g].err.Struct # "") =>
            calls[g].err.Struct = TypeString(calls[g].ptr)

\* No entry of typeCache is written after it was stored
StoredOnce ==
    [][\A k \in DOMAIN typeCache : typeCache'[k] = typeCache[k]]_vars

\* ------------------------------------------------------------------------
\* crypt.Check
\* ------------------------------------------------------------------------

\* The places of the delimiters "$" and "," of h after its first character
Delimiters(h) == {n \in 2..Len(h) : h[n] \in {"$", ","}}

\* h starts with "$" and its identifier is empty or has no end
BadIdentifier(h) ==
    /\ h # <<>> /\ h[1] = "$"
    /\ (Delimiters(h) = {} \/ Least(Delimiters(h)) = 2)

\* The prefix of h: "$id$" or "$id," through the first delimiter, "_" for a
\* hash that starts with "_", and the empty string otherwise
PrefixOfHash(h) ==
    IF h # <<>> /\ h[1] = "$" THEN SubSeq(h, 1, Least(Delimiters(h)))
    ELSE IF h # <<>> /\ h[1] = "_" THEN <<"_">>
    ELSE <<>>

\* The calls of RegisterHash for prefix p made before the last Check
RegisteredFor(p) ==
    {n \in 1..checked.at : registered[n].prefix = p}

\* The greatest member of a set of numbers
Greatest(S) == CHOOSE n \in S : \A m \in S : m <= n

\* C19: after any sequence of RegisterHash calls Check(hash, password)
\* returns what the function registered last under the prefix of the hash
\* returns for (hash, password), and "unknown hash" when none is registered
\* under that prefix or when the hash starts with "$" and its identifier is
\* empty or has no end.
C19_Check ==
    checked.op = "Check" =>
        checked.err =
            IF BadIdentifier(checked.hash) THEN ErrHash
            ELSE IF RegisteredFor(PrefixOfHash(checked.hash)) = {} THEN ErrHash
            ELSE Apply(registered[Greatest(RegisteredFor(PrefixOfHash(checked.hash)))].check,
                       checked.hash, checked.password)

\* Check returned nil from the function that replaced another one under the
\* prefix "$a," of the hash
C19_Witness ==
    /\ checked.op = "Check" /\ checked.err = "nil"
    /\ PrefixOfHash(checked.hash) = <<"$", "a", ",">>
    /\ Cardinality(RegisteredFor(PrefixOfHash(checked.hash))) >= 2
    /\ \E n \in RegisteredFor(PrefixOfHash(checked.hash)) : registered[n].check = "reject"

\* ------------------------------------------------------------------------
\* The prefix state of the lexer
\* ------------------------------------------------------------------------

\* The places of the Prefix tokens among the tokens of s
PrefixTokens(s) == {i \in 1..Len(Tokens(s)) : Tokens(s)[i].Type = "tokenPrefix"}

\* What the prefix state does with an input s that starts with "$", that
\* starts with "_", and with any other input
DollarState(s) ==
    IF Delimiters(s) = {}
    THEN Tokens(s) = <<token("tokenError", Len(s), "missing prefix end")>>
    ELSE IF Least(Delimiters(s)) = 2
    THEN Tokens(s) = <<token("tokenError", 1, "missing prefix identifier")>>
    ELSE Tokens(s)[1] = token("tokenPrefix", 0, SubSeq(s, 1, Least(Delimiters(s))))

UnderscoreState(s) == Tokens(s)[1] = token("tokenPrefix", 0, <<"_">>)

\* Parse gives the Error token of the lexer as a SyntaxError, with no tree
ErrorReported(s) ==
    \A i \in 1..Len(Tokens(s)) :
        Tokens(s)[i].Type = "tokenError" =>
            /\ Parse(s).err = SyntaxError(Tokens(s)[i].Pos, Tokens(s)[i].Value)
            /\ Parse(s).tree = [Prefix |-> NilNode, Fragments |-> <<>>]
            /\ last.err = Parse(s).err

\* C20: in the prefix state the lexer emits, for an input that starts with
\* "$", the Error "missing prefix end" at the length of the input when no
\* delimiter follows, the Error "missing prefix identifier" at offset 1 when
\* the delimiter is the next character, and otherwise one Prefix token
\* through the delimiter; it emits the one-character Prefix token "_" only
\* for an input that starts with "_".  So the tokens hold at most one Prefix
\* token, the first, and Parse gives a lexer Error as a SyntaxError of the
\* same offset and message with no tree.
C20_PrefixState ==
    Unmarshaled =>
        /\ IF HasPrefix(last.in, <<"$">>) THEN DollarState(last.in)
           ELSE IF HasPrefix(last.in, <<"_">>) THEN UnderscoreState(last.in)
           ELSE PrefixTokens(last.in) = {}
        /\ PrefixTokens(last.in) \subseteq {1}
        /\ ErrorReported(last.in)

\* ------------------------------------------------------------------------
\* What a failed Unmarshal leaves in the record
\* ------------------------------------------------------------------------

\* The place of the field of Index ix in Schema order, the prefix field first
PlaceOf(ix) == CHOOSE i \in 1..Len(NamedFields) : NamedFields[i].Index = ix

\* Value x is what text t decodes to in field f that held old
DecodedFrom(f, t, x, old) ==
    CASE f.Kind \in {"string", "slice"} -> x = t
      [] f.Kind = "array" ->
           /\ Len(x) = Len(old)
           /\ \A i \in 1..Len(x) : x[i] = IF i <= Len(t) THEN t[i] ELSE old[i]
      [] f.Kind = "int"  -> ParseInt(t, f.Opts.Base).ok /\ x = ParseInt(t, f.Opts.Base).val
      [] f.Kind = "uint" -> ParseUint(t, f.Opts.Base).ok /\ x = ParseUint(t, f.Opts.Base).val
      [] OTHER -> FALSE

\* The first entry of log l that is an error
FirstErrorEntry(l) == Least({h \in 1..Len(l) : l[h].What = "error"})

\* A step that is a call of Unmarshal which failed at a field: the fields
\* bound before hold what was decoded, the fields after the failing one in
\* Schema order hold what the record before held (the zero value when the
\* call was given a new record)
FrameOfStep(before, after, call) ==
    (call.op = "Unmarshal" /\ \E h \in 1..Len(call.log) : call.log[h].What = "error") =>
        /\ \A h \in 1..(FirstErrorEntry(call.log) - 1) :
              call.log[h].What \in {"bound", "prefix"} =>
                  DecodedFrom(FieldOf(call.log[h]), call.log[h].Text,
                              after[call.log[h].Index], before[call.log[h].Index])
        /\ \A i \in 1..Len(NamedFields) :
              i > PlaceOf(call.log[FirstErrorEntry(call.log)].Index) =>
                  after[NamedFields[i].Index] = before[NamedFields[i].Index]

\* C21: when Unmarshal returns a binding error at a field of the Schema,
\* every field bound before it keeps the value decoded from the input and
\* every field after it in Schema order holds the value it had before the
\* call: nothing is rolled back and nothing beyond the failure is touched.
C21_Frame ==
    [][FrameOfStep(IF last'.fresh THEN ZeroRecord(typ) ELSE v, v', last')]_vars

\* Unmarshal failed at the second field of a record that held values: the
\* first field is bound and the fields after the second hold what they held
C21_Witness ==
    /\ Unmarshaled /\ ~last.fresh /\ typ \in FrameTypes
    /\ Len(Log) = 2 /\ Log[1].What = "bound" /\ Log[2].What = "error"
    /\ v[<<0>>] = <<"a">> /\ v[<<1>>] = 7
    /\ v[<<2>>] = <<"y", "z">> /\ v[<<3>>] = <<"w">>

\* ------------------------------------------------------------------------
\* The Value tokens and the tree
\* ------------------------------------------------------------------------

\* The values of the fragments of a tree in order, those of a group in the
\* order of the group
RECURSIVE ValuesOf(_)
ValuesOf(frags) ==
    IF frags = <<>> THEN <<>>
    ELSE (IF frags[1].Type = "group" THEN frags[1].Values ELSE <<frags[1]>>)
         \o ValuesOf(Tail(frags))

\* The Value tokens of s in the order the lexer sends them, as nodes
ValueTokens(s) ==
    LET toks == SelectSeq(Tokens(s), LAMBDA t : t.Type = "tokenValue")
    IN  [i \in 1..Len(toks) |->
            ValueNode(toks[i].Value, toks[i].Pos, toks[i].Pos + Len(toks[i].Value))]

\* s ends right after a comma
EndsWithComma(s) == s # <<>> /\ s[Len(s)] = ","

\* C22: every Value token of the lexer is in the tree of Parse once and in
\* the order of the input, as a fragment of its own or as a value of a
\* group; a group that is open at a Dollar or EOF token is pushed as a
\* fragment, also when the input ends right after a comma.
C22_ValuesKept ==
    (Unmarshaled /\ InParses) => ValuesOf(InTree.Fragments) = ValueTokens(last.in)

\* ------------------------------------------------------------------------
\* The shape of the tree
\* ------------------------------------------------------------------------

\* The text of input s from offset pos up to offset end
TextAt(s, pos, end) == SubSeq(s, pos + 1, end)

\* Node n is a value node that holds the text of s at its place
IsValueOf(s, n) ==
    /\ n.Type = "value"
    /\ 0 <= n.pos /\ n.pos <= n.end /\ n.end <= Len(s)
    /\ n.Value = TextAt(s, n.pos, n.end)
    /\ "," \notin Range(n.Value) /\ "$" \notin Range(n.Value)

\* Fragment g of the tree of s is a group: it has a value, every entry is a
\* value node, and a comma of s stands between a value and the next
IsGroupOf(s, g) ==
    /\ Len(g.Values) >= 1
    /\ \A j \in 1..Len(g.Values) : IsValueOf(s, g.Values[j])
    /\ "," \in Range(TextAt(s, g.Values[1].pos, g.Values[Len(g.Values)].end))
    /\ \A j \in 1..(Len(g.Values) - 1) :
          /\ g.Values[j + 1].pos = g.Values[j].end + 1
          /\ s[g.Values[j].end + 1] = ","

\* Fragment n of the tree of s is a value with no comma next to it: what
\* comes before it is the prefix or a "$", what comes after it is a "$"
IsLoneValueOf(s, tree, n) ==
    /\ IsValueOf(s, n)
    /\ n.end < Len(s) => s[n.end + 1] = "$"
    /\ n.pos > (IF tree.Prefix.Type = "nil" THEN 0 ELSE BodyStart(s)) => s[n.pos] = "$"

\* C23: in every tree Parse returns a group has at least one value and no
\* nil entry, a fragment with no comma is a value and never a group, and
\* the fragments and the values of each group stand in the order of the
\* input, their start offsets strictly increasing.
C23_TreeShape ==
    (Unmarshaled /\ InParses) =>
        /\ \A i \in 1..Len(InTree.Fragments) :
              IF InTree.Fragments[i].Type = "group"
              THEN IsGroupOf(last.in, InTree.Fragments[i])
              ELSE IsLoneValueOf(last.in, InTree, InTree.Fragments[i])
        /\ \A i \in 1..(Len(ValuesOf(InTree.Fragments)) - 1) :
              ValuesOf(InTree.Fragments)[i].pos < ValuesOf(InTree.Fragments)[i + 1].pos

\* Parse returned a tree of a value, a group of two values and a value
C23_Witness ==
    /\ Unmarshaled /\ InParses
    /\ Len(InTree.Fragments) >= 2
    /\ \E i \in 1..Len(InTree.Fragments) :
          InTree.Fragments[i].Type = "group" /\ Len(InTree.Fragments[i].Values) >= 2
    /\ \E i \in 1..Len(InTree.Fragments) : InTree.Fragments[i].Type = "value"

\* ------------------------------------------------------------------------
\* The end of the lexer and of Parse
\* ------------------------------------------------------------------------

\* The places of the EOF and Error tokens among the tokens sent
Terminals == {i \in 1..Len(tokens.sent) : tokens.sent[i].Type \in {"tokenEOF", "tokenError"}}

\* A terminal token is the last token sent; Parse has returned only after
\* it received one, and then the lexer waits on no send; the channel is
\* closed only after Parse returned, so Parse never receives from the
\* closed channel
TerminalLast ==
    /\ Terminals \subseteq {Len(tokens.sent)}
    /\ parser.pc = "returned" <=> Terminals # {}
    /\ parser.pc = "returned" => lexer.pc # "send" /\ lexer.outbox = <<>>
    /\ tokens.closed => parser.pc = "returned" /\ lexer.pc = "exited"

\* Parse has returned what Parse returns, the channel is closed and the
\* goroutine of the lexer is gone
AllDone ==
    /\ parser.pc = "returned" /\ tokens.closed /\ lexer.pc = "exited"
    /\ Cardinality(Terminals) = 1
    /\ tokens.sent = Tokens(hash)
    /\ [tree |-> parser.tree, err |-> parser.err] = Parse(hash)

\* C24: for every input the lexer sends finitely many tokens with one
\* terminal token (EOF or Error), the last one; after Parse received it
\* the goroutine of the lexer closes the channel and ends: it never stays
\* blocked on a send once Parse has returned, and Parse never waits for
\* ever on a receive.
C24_Termination == [](TerminalLast) /\ <>[](AllDone)

\* Parse returned after an Error token, sent after no other token, and the
\* lexer is gone
C24_Witness ==
    /\ AllDone
    /\ parser.err.Kind = "SyntaxError"
    /\ Len(hash) = MaxInput
    /\ tokens.sent = <<token("tokenError", Len(hash), "missing prefix end")>>

\* ------------------------------------------------------------------------
\* The count of required fields
\* ------------------------------------------------------------------------

\* The fields of the Schema that are neither optional, grouped nor inline
RequiredOfSchema ==
    {i \in 1..Len(Schema.Fields) :
        /\ ~Schema.Fields[i].Opts.OmitEmpty
        /\ ~Schema.Fields[i].Opts.Group
        /\ ~Schema.Fields[i].Opts.Inline}

\* C25: NumReqValues of a compiled Schema is the number of the fields of
\* its final Fields list that are neither optional, grouped nor inline; a
\* field that a field of the same param name shadows, and the prefix field,
\* are not counted.
C25_RequiredCount ==
    (ReachedCompiler /\ GotSchema) => Schema.NumReqValues = Cardinality(RequiredOfSchema)

\* ------------------------------------------------------------------------
\* The rule that skips an optional field
\* ------------------------------------------------------------------------

\* The place of the field of Index ix in the Fields of the Schema
PlaceInFields(ix) == CHOOSE i \in 1..Len(Schema.Fields) : Schema.Fields[i].Index = ix

\* The number of required fields of the Schema after the field of Index ix
RequiredAfter(ix) == Cardinality({i \in RequiredOfSchema : i > PlaceInFields(ix)})

\* Log entry e is of an omitempty field that is not grouped, for which the
\* rule was evaluated: the field had a fragment left and its turn did not
\* end with the excess of the group before it
RuleEvaluated(e) ==
    /\ FieldOf(e).Opts.OmitEmpty /\ ~FieldOf(e).Opts.Group /\ ~FieldOf(e).Opts.Prefix
    /\ e.What \in {"skipped", "bound", "no match"}

\* C26: when the skip rule is evaluated for an omitempty field that is not
\* grouped, with no group open, the field is skipped exactly when the
\* number of fragments not yet consumed (len(fragments) minus the cursor)
\* minus the number of required fields after this field is <= 0, also
\* after a group fragment was consumed or an optional field was skipped.
C26_SkipRule ==
    (Unmarshaled /\ InParses /\ Compiles) =>
        \A h \in 1..Len(Log) :
            RuleEvaluated(Log[h]) =>
                (Log[h].What = "skipped" <=> Log[h].Left - RequiredAfter(Log[h].Index) <= 0)

\* ------------------------------------------------------------------------
\* A lone value met by a grouped field
\* ------------------------------------------------------------------------

\* Log entry e is about a grouped field that came to the switch on a
\* fragment that is a lone value starting with the field's param and "="
MetLoneValue(e) ==
    /\ ~FieldOf(e).Opts.Prefix /\ FieldOf(e).Opts.Group
    /\ e.What \in {"bound", "no match", "error"}
    /\ e.Frag < Len(InTree.Fragments)
    /\ InTree.Fragments[e.Frag + 1].Type = "value"
    /\ HasPrefix(InTree.Fragments[e.Frag + 1].Value, FieldOf(e).Opts.Param \o <<"=">>)

\* The field of entry h took the value: it is bound, or decoding the
\* value it took failed
TookValue(h) ==
    \/ Log[h].What = "bound"
    \/ Log[h].What = "error" /\ last.err.Msg # notFound(FieldOf(Log[h]))

\* C27: a grouped field whose current fragment is a lone value that starts
\* with the field's param and "=" takes it, and the fragment is then
\* consumed (when it is bound, is the last fragment and the last thing
\* looked at, the call succeeds), for omitempty grouped fields as for
\* required ones.
C27_LoneValue ==
    (Unmarshaled /\ InParses /\ Compiles) =>
        \A h \in 1..Len(Log) :
            MetLoneValue(Log[h]) =>
                /\ TookValue(h)
                /\ (h = Len(Log) /\ Log[h].What = "bound"
                    /\ Log[h].Frag + 1 = Len(InTree.Fragments)) => Ok

\* The same for the grouped fields that are not omitempty
LoneValueRequired ==
    (Unmarshaled /\ InParses /\ Compiles) =>
        \A h \in 1..Len(Log) :
            (MetLoneValue(Log[h]) /\ ~FieldOf(Log[h]).Opts.OmitEmpty) =>
                /\ TookValue(h)
                /\ (h = Len(Log) /\ Log[h].What = "bound"
                    /\ Log[h].Frag + 1 = Len(InTree.Fragments)) => Ok

\* ------------------------------------------------------------------------
\* The fields of an open group
\* ------------------------------------------------------------------------

\* Log entry e is about a grouped field that searched the group at the
\* cursor
InOpenGroup(e) ==
    /\ ~FieldOf(e).Opts.Prefix /\ FieldOf(e).Opts.Group
    /\ e.What \in {"bound", "no match", "error"}
    /\ e.Frag < Len(InTree.Fragments)
    /\ InTree.Fragments[e.Frag + 1].Type = "group"

\* The places in the group of entry e of the values that start with the
\* param of its field and "="
Matching(e) ==
    {j \in 1..Len(InTree.Fragments[e.Frag + 1].Values) :
        HasPrefix(InTree.Fragments[e.Frag + 1].Values[j].Value, FieldOf(e).Opts.Param \o <<"=">>)}

\* The binds from the group at cursor i among the first h entries
BoundBefore(i, h) ==
    {k \in 1..h : Log[k].What = "bound" /\ Log[k].Frag = i /\ Log[k].Sub > 0}

\* C28: in an open group a grouped field is bound to a value that starts
\* with its param and "=", whatever the place of the value in the group;
\* the count of remaining group values a field sees is the size of the
\* group less the binds made before it, and a call that succeeds has made
\* as many binds as the group has values; no value of the group is bound
\* to two fields; and a grouped field that is not omitempty and has no
\* matching value fails with "grouped param not found" at the end offset
\* of the fragment.
C28_OpenGroup ==
    (Unmarshaled /\ InParses /\ Compiles) =>
        \A h \in 1..Len(Log) :
            InOpenGroup(Log[h]) =>
                /\ Matching(Log[h]) # {} =>
                       /\ TookValue(h)
                       /\ Log[h].What = "bound" => Log[h].Sub \in Matching(Log[h])
                /\ Log[h].numGroupValues
                       = Len(InTree.Fragments[Log[h].Frag + 1].Values)
                         - Cardinality(BoundBefore(Log[h].Frag, h - 1))
                /\ \A k \in BoundBefore(Log[h].Frag, h - 1) :
                       Log[h].What = "bound" => Log[k].Sub # Log[h].Sub
                /\ (Matching(Log[h]) = {} /\ ~FieldOf(Log[h]).Opts.OmitEmpty) =>
                       /\ Log[h].What = "error" /\ h = Len(Log)
                       /\ last.err.Msg = "grouped param not found"
                       /\ last.err.Offset = End(InTree.Fragments[Log[h].Frag + 1])
                /\ (Matching(Log[h]) = {} /\ FieldOf(Log[h]).Opts.OmitEmpty) =>
                       Log[h].What = "no match"
                /\ Ok => Cardinality(BoundBefore(Log[h].Frag, Len(Log)))
                             = Len(InTree.Fragments[Log[h].Frag + 1].Values)

\* ------------------------------------------------------------------------
\* The tokens cover the input
\* ------------------------------------------------------------------------

\* The tokens the lexer has emitted: those Parse received and those of the
\* last state function still to be sent
Emitted == tokens.sent \o lexer.outbox

\* The texts of the first n tokens of ts, one after the other
RECURSIVE TextsOf(_, _)
TextsOf(ts, n) == IF n = 0 THEN <<>> ELSE TextsOf(ts, n - 1) \o ts[n].Value

NoErrorToken == \A i \in 1..Len(Emitted) : Emitted[i].Type # "tokenError"

\* Each token starts where the tokens before it end, the tokens emitted so
\* far are the input up to the start of the pending text, and they are the
\* whole input once the last state function has run
Contiguous ==
    /\ \A i \in 1..Len(Emitted) : Emitted[i].Pos = Len(TextsOf(Emitted, i - 1))
    /\ TextsOf(Emitted, Len(Emitted)) = Slice(hash, 0, lexer.l.start)
    /\ lexer.state = "nil" => TextsOf(Emitted, Len(Emitted)) = hash

\* The scan position and the start of the pending text stay in the input
ScanInside == 0 <= lexer.l.start /\ lexer.l.start <= lexer.l.pos /\ lexer.l.pos <= Len(hash)

\* C29: on an input for which the lexer emits no Error token the texts of
\* the tokens, in the order emitted, make up the input, each token's
\* offset is the total length of the tokens before it, and the scan
\* position never moves backwards.
C29_Contiguous ==
    /\ [](ScanInside /\ (NoErrorToken => Contiguous))
    /\ [][lexer'.l.pos >= lexer.l.pos /\ lexer'.l.start >= lexer.l.start]_vars

\* The lexer is through "_a,a": a prefix, a value, a comma, a value, EOF
C29_Witness ==
    /\ lexer.pc = "exited" /\ tokens.closed
    /\ hash = <<"_", "a", ",", "a">>
    /\ tokens.sent = <<token("tokenPrefix", 0, <<"_">>), token("tokenValue", 1, <<"a">>),
                       token("tokenComma", 2, <<",">>), token("tokenValue", 3, <<"a">>),
                       token("tokenEOF", 4, <<>>)>>

\* ------------------------------------------------------------------------
\* A prefix in the input of a record with no prefix field
\* ------------------------------------------------------------------------

\* Error err of a call on the input cut by its first n characters, as the
\* call on the whole input would report it
Shifted(err, n) == IF err.Kind = "nil" THEN err ELSE [err EXCEPT !.Offset = @ + n]

\* What follows the prefix starts no prefix of its own
PlainBody(s) ==
    LET body == From(s, BodyStart(s))
    IN  body = <<>> \/ body[1] \notin {"$", "_"}

\* What the field loop and the checks after it make of a tree for a record
\* that held target
BoundFrom(s, tree, ti, target) ==
    LET st == fieldsLoop(s, ti, 1, prefixStep(s, tree, ti, startLoop(tree, ti, target)))
        end == IF st.err.Kind # "nil" THEN st ELSE afterFields(st)
    IN  [v |-> end.v, err |-> end.err, log |-> end.log]

\* The call gave what the tree without its prefix gives, and, when what
\* follows the prefix starts no prefix of its own, what Unmarshal of the
\* input without the prefix gives, the offset of an error moved by the
\* length of the prefix
PrefixIgnored(before, after, call, cache) ==
    (/\ call.op = "Unmarshal" /\ Compiles /\ ~HasPrefixField
     /\ Parse(call.in).err.Kind = "nil" /\ Parse(call.in).tree.Prefix.Type # "nil") =>
        LET tree == Parse(call.in).tree
            bare == BoundFrom(call.in, [tree EXCEPT !.Prefix = NilNode],
                              getTypeInfo(typ, TRUE, cache).ti, before)
            body == From(call.in, BodyStart(call.in))
            r    == Unmarshal(body, typ, before, cache)
        IN  /\ after = bare.v /\ call.err = bare.err /\ call.log = bare.log
            /\ PlainBody(call.in) =>
                   /\ after = r.v /\ call.log = r.log
                   /\ call.err = Shifted(r.err, BodyStart(call.in))

\* C30: when the Schema has no prefix field Unmarshal does not look at the
\* prefix of the tree: an input with a "$id$", "$id," or "_" prefix gives no
\* error on account of the prefix, and its fragments are bound to the
\* fields as the same fragments with no prefix before them are, which is
\* as Unmarshal binds the input without the prefix whenever that input
\* starts no prefix of its own.
C30_PrefixIgnored ==
    [][PrefixIgnored(IF last'.fresh THEN ZeroRecord(typ) ELSE v, v', last', typeCache)]_vars

\* "$a,a" is unmarshaled into a record with no prefix field: the fragment
\* after the prefix is bound to the first field
C30_Witness ==
    /\ Unmarshaled /\ Ok /\ ~HasPrefixField
    /\ last.in = <<"$", "a", ",", "a">>
    /\ InTree.Prefix.Type # "nil" /\ InTree.Prefix.Value = <<"$", "a", ",">>
    /\ Len(Log) >= 1 /\ Log[1].What = "bound" /\ Log[1].Text = <<"a">>
    /\ v[<<0>>] = <<"a">>

====
